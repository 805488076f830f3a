----------------------------- MODULE FamilyProofs -----------------------------
(***************************************************************************)
(* Proofs about parents and children in ProcTable: what waitpid learns of  *)
(* deaths and stops (Answered), who shares a page directory with whom, and *)
(* how vfork holds the parent (Family).  They rest on the invariant IInv   *)
(* of ProcTableProofs.                                                     *)
(***************************************************************************)
EXTENDS ProcTableProofs

-----------------------------------------------------------------------------
(* No death and no stop is lost.  Answered is the conjunction of           *)
(* NoLostExit, NoLostStop and WaiterHasChild for any table and list.       *)

Blocked(r) == r.state = "WAITING" /\ r.vfork_child = 0 /\ r.futex = 0
Asks(t, p, c) == t[c].thread = FALSE /\ t[c].parent = p /\ t[p].wait_pid \in {0, c}

Answered(t, L) ==
    \A p \in L : Blocked(t[p]) =>
        /\ \E c \in L : Asks(t, p, c)
        /\ \A c \in L : Asks(t, p, c) =>
                t[c].state # "ZOMBIE" /\ (t[p].untraced => t[c].stop = FALSE)

\* A change that blocks nobody, kills nobody, revives nobody and reports no stop.
QuietPcb(a, b) ==
    /\ b.parent = a.parent /\ b.thread = a.thread
    /\ Blocked(b) => Blocked(a) /\ b.wait_pid = a.wait_pid /\ b.untraced = a.untraced
    /\ b.state = "ZOMBIE" <=> a.state = "ZOMBIE"
    /\ b.stop = TRUE => a.stop = TRUE

Quiet(t, u) == \A p \in Pids : QuietPcb(t[p], u[p])

\* Nobody leaves the state ZOMBIE.
Final(t, u) == \A p \in Pids : t[p].state = "ZOMBIE" => u[p].state = "ZOMBIE"

LEMMA AnsweredStrong ==
    ASSUME IInv
    PROVE  Answered(pcb, list) <=> NoLostExit /\ NoLostStop /\ WaiterHasChild
<1>1. list \subseteq Pids /\ \A p \in Pids : pcb[p] \in Pcb
  BY DEF IInv, Static, Table
<1>2. \A p \in Pids : pcb[p].thread \in BOOLEAN /\ pcb[p].stop \in BOOLEAN
  BY <1>1 DEF Pcb
<1>3. \A p, c \in Pids : p \in list => (WaitedChild(p, c) <=> c \in list /\ Asks(pcb, p, c))
  BY <1>2 DEF WaitedChild, Asks
<1>4. \A p \in Pids : InWait(p) <=> p \in list /\ Blocked(pcb[p])
  BY DEF InWait, Blocked
<1>5. ASSUME Answered(pcb, list) PROVE NoLostExit /\ NoLostStop /\ WaiterHasChild
  BY <1>1, <1>2, <1>3, <1>4, <1>5 DEF Answered, NoLostExit, NoLostStop, WaiterHasChild
<1>6. ASSUME NoLostExit, NoLostStop, WaiterHasChild PROVE Answered(pcb, list)
  BY <1>1, <1>2, <1>3, <1>4, <1>6 DEF Answered, NoLostExit, NoLostStop, WaiterHasChild
<1>. QED
  BY <1>5, <1>6

LEMMA QuietAnswered ==
    ASSUME NEW t \in Table, NEW u \in Table, NEW L \in SUBSET Pids,
           Quiet(t, u), Answered(t, L)
    PROVE  Answered(u, L) /\ Final(t, u)
<1>1. ASSUME NEW p \in L, Blocked(u[p])
      PROVE  /\ \E c \in L : Asks(u, p, c)
             /\ \A c \in L : Asks(u, p, c) =>
                    u[c].state # "ZOMBIE" /\ (u[p].untraced => u[c].stop = FALSE)
  <2>1. /\ Blocked(t[p]) /\ u[p].wait_pid = t[p].wait_pid
        /\ u[p].untraced = t[p].untraced
    BY <1>1 DEF Quiet, QuietPcb
  <2>2. \A c \in L : Asks(u, p, c) <=> Asks(t, p, c)
    BY <2>1 DEF Quiet, QuietPcb, Asks
  <2>3. \A c \in L : u[c].stop \in BOOLEAN /\ t[c].stop \in BOOLEAN
    BY DEF Table, Pcb
  <2>4. \E c \in L : Asks(t, p, c)
    BY <2>1 DEF Answered
  <2>5. ASSUME NEW c \in L, Asks(t, p, c)
        PROVE  u[c].state # "ZOMBIE" /\ (u[p].untraced => u[c].stop = FALSE)
    <3>1. t[c].state # "ZOMBIE" /\ (t[p].untraced => t[c].stop = FALSE)
      BY <2>1, <2>5 DEF Answered
    <3>2. QuietPcb(t[c], u[c])
      BY DEF Quiet
    <3>. QED
      BY <2>1, <2>3, <3>1, <3>2 DEF QuietPcb
  <2>. QED
    BY <2>2, <2>4, <2>5
<1>2. Answered(u, L)
  BY <1>1 DEF Answered
<1>3. Final(t, u)
  BY DEF Final, Quiet, QuietPcb
<1>. QED
  BY <1>2, <1>3

LEMMA QuietPcbSame == ASSUME NEW a PROVE QuietPcb(a, a)
BY DEF QuietPcb

LEMMA QuietTransitive ==
    ASSUME NEW t, NEW u, NEW v, Quiet(t, u), Quiet(u, v) PROVE Quiet(t, v)
BY DEF Quiet, QuietPcb

\* One record changes quietly.
LEMMA QuietSet ==
    ASSUME NEW t \in Table, NEW p \in Pids, NEW r, QuietPcb(t[p], r)
    PROVE  Quiet(t, [t EXCEPT ![p] = r])
<1>1. ASSUME NEW q \in Pids PROVE QuietPcb(t[q], [t EXCEPT ![p] = r][q])
  BY QuietPcbSame DEF Table
<1>. QED
  BY <1>1 DEF Quiet

LEMMA SetStateQuiet ==
    ASSUME NEW t \in Table, NEW p \in Pids, NEW s \in States \ {"WAITING", "ZOMBIE"},
           t[p].state # "ZOMBIE"
    PROVE  Quiet(t, [t EXCEPT ![p].state = s])
<1>1. PICK r : r = [t[p] EXCEPT !.state = s]
  OBVIOUS
<1>2. QuietPcb(t[p], r)
  BY <1>1 DEF QuietPcb, Blocked, Table, Pcb
<1>3. [t EXCEPT ![p].state = s] = [t EXCEPT ![p] = r]
  BY <1>1
<1>. QED
  BY <1>2, <1>3, QuietSet

LEMMA ReleaseQuiet ==
    ASSUME NEW t, Listed(t), NEW v \in Pids
    PROVE  Quiet(t, ReleaseVforkParent(t, v))
<1>0. t \in Table
  BY DEF Listed
<1>1. CASE ~(t[v].vforkvm /\ t[v].parent \in list /\ t[t[v].parent].vfork_child = v)
  BY <1>1, QuietPcbSame DEF ReleaseVforkParent, Quiet
<1>2. CASE t[v].vforkvm /\ t[v].parent \in list /\ t[t[v].parent].vfork_child = v
  <2>1. PICK pa \in list : pa = t[v].parent
    BY <1>2
  <2>2. PICK s : s = IF t[pa].state = "WAITING" THEN "READY" ELSE t[pa].state
    OBVIOUS
  <2>3. PICK r : r = [t[pa] EXCEPT !.vfork_child = 0, !.state = s]
    OBVIOUS
  <2>4. pa \in Pids /\ t[pa] \in Pcb
    BY ListedPcb
  <2>5. ReleaseVforkParent(t, v) = [t EXCEPT ![pa] = r]
    BY <1>2, <2>1, <2>2, <2>3, <2>4, <1>0 DEF ReleaseVforkParent, Table, Pcb
  <2>6. QuietPcb(t[pa], r)
    BY <2>2, <2>3, <2>4 DEF QuietPcb, Blocked, Pcb
  <2>. QED
    BY ZenonT(60), <1>0, <2>4, <2>5, <2>6, QuietSet
<1>. QED
  BY <1>1, <1>2

LEMMA AnswerQuiet ==
    ASSUME NEW t, Listed(t), NEW pa \in list, t[pa].state # "ZOMBIE"
    PROVE  Quiet(t, AnswerWait(t, pa))
<1>1. PICK r : r = [t[pa] EXCEPT !.state = "READY", !.wait_pid = 0, !.untraced = FALSE]
  OBVIOUS
<1>2. t \in Table /\ pa \in Pids /\ t[pa] \in Pcb
  BY ListedPcb DEF Listed
<1>3. AnswerWait(t, pa) = [t EXCEPT ![pa] = r]
  BY <1>1, <1>2 DEF AnswerWait, Table, Pcb
<1>4. QuietPcb(t[pa], r)
  BY <1>1, <1>2 DEF QuietPcb, Blocked, Pcb
<1>5. Quiet(t, [t EXCEPT ![pa] = r])
  BY ONLY <1>2, <1>4, QuietSet
<1>. QED
  BY ONLY <1>3, <1>5

LEMMA ClearStopQuiet ==
    ASSUME NEW t, Listed(t), NEW c \in list
    PROVE  Quiet(t, [t EXCEPT ![c].stop = FALSE])
<1>1. PICK r : r = [t[c] EXCEPT !.stop = FALSE]
  OBVIOUS
<1>2. t \in Table /\ c \in Pids /\ t[c] \in Pcb
  BY ListedPcb DEF Listed
<1>3. QuietPcb(t[c], r)
  BY <1>1, <1>2 DEF QuietPcb, Blocked, Pcb
<1>4. [t EXCEPT ![c].stop = FALSE] = [t EXCEPT ![c] = r]
  BY <1>1
<1>. QED
  BY <1>2, <1>3, <1>4, QuietSet

LEMMA WakeFutexQuiet ==
    ASSUME NEW t, Listed(t), NEW a, NEW d, NEW all
    PROVE  Quiet(t, WakeFutex(t, a, d, all))
<1>1. PICK ws : ws = IF a = 0 THEN {} ELSE FutexWaiters(t, a, d)
  OBVIOUS
<1> DEFINE W == {q \in ws : all \/ IsFirst(q, ws)}
<1>2. WakeFutex(t, a, d, all)
        = [q \in Pids |-> IF q \in W THEN [t[q] EXCEPT !.state = "READY", !.futex = 0]
                          ELSE t[q]]
  BY <1>1, Zenon DEF WakeFutex
<1>3. \A q \in W : t[q].state = "WAITING"
  BY <1>1 DEF FutexWaiters
<1>. HIDE DEF W
<1>4. ASSUME NEW q \in Pids PROVE QuietPcb(t[q], WakeFutex(t, a, d, all)[q])
  <2>1. t[q] \in Pcb
    BY DEF Listed, Table
  <2>2. CASE q \notin W
    BY <1>2, <2>2, QuietPcbSame
  <2>3. CASE q \in W
    <3>1. PICK r : r = [t[q] EXCEPT !.state = "READY", !.futex = 0]
      OBVIOUS
    <3>2. QuietPcb(t[q], r)
      BY <1>3, <2>1, <2>3, <3>1 DEF QuietPcb, Blocked, Pcb
    <3>. QED
      BY <1>2, <2>3, <3>1, <3>2
  <2>. QED
    BY <2>2, <2>3
<1>. QED
  BY <1>4 DEF Quiet

\* A stop is reported at once to a parent that waits for it.
LEMMA StopAnswered ==
    ASSUME NEW t, Listed(t), NEW c \in list, Answered(t, list)
    PROVE  Answered(Stop(t, c), list)
<1>0. t \in Table /\ c \in Pids /\ t[c] \in Pcb /\ list \subseteq Pids
  BY ListedPcb DEF Listed
<1>1. CASE t[c].state = "STOPPED"
  BY <1>1 DEF Stop
<1>2. CASE t[c].state # "STOPPED"
  <2>1. PICK r : r = [t[c] EXCEPT !.state = "STOPPED", !.stop = TRUE]
    OBVIOUS
  <2>2. /\ r \in Pcb /\ r.state = "STOPPED" /\ r.parent = t[c].parent
        /\ r.thread = t[c].thread /\ r.wait_pid = t[c].wait_pid
    <3>1. PICK x \in States, m \in Pcb : x = "STOPPED" /\ m = t[c]
      BY <1>0, StatesFacts
    <3>2. r = [m EXCEPT !.state = x, !.stop = TRUE]
      BY <2>1, <3>1
    <3>. QED
      BY <3>1, <3>2 DEF Pcb
  <2>3. PICK u : u = [t EXCEPT ![c] = r]
    OBVIOUS
  <2>4. u \in Table /\ u[c] = r /\ \A p \in Pids \ {c} : u[p] = t[p]
    BY <1>0, <2>2, <2>3 DEF Table
  <2>5. Stop(t, c) = NotifyStoppedParent(u, c)
    <3>1. u = [t EXCEPT ![c].state = "STOPPED", ![c].stop = TRUE]
      BY <2>1, <2>3, <1>0 DEF Table, Pcb
    <3>. QED
      BY <1>2, <3>1 DEF Stop
  <2>6. Listed(u)
    BY <1>0, <2>2, <2>4, StatesFacts DEF Listed
  <2>7. ASSUME NEW p \in list, Blocked(u[p])
        PROVE  /\ p # c /\ u[p] = t[p] /\ Blocked(t[p])
               /\ \A x \in list : Asks(u, p, x) <=> Asks(t, p, x)
    <3>1. p # c /\ p \in Pids
      BY <1>0, <2>2, <2>4, <2>7 DEF Blocked
    <3>. QED
      BY <1>0, <2>2, <2>4, <2>7, <3>1 DEF Asks
  <2>8. CASE u[c].parent \in list /\ u[u[c].parent].untraced /\ WaitMatches(u, u[c].parent, c)
    <3>1. PICK pa \in list : pa = u[c].parent
      BY <2>8
    <3>2. PICK v : v = AnswerWait(u, pa)
      OBVIOUS
    <3>3. Quiet(u, v) /\ Listed(v) /\ v \in Table
      BY <2>6, <2>8, <3>1, <3>2, AnswerQuiet, AnswerEvolves, EvolvesListed DEF WaitMatches, Listed
    <3>4. PICK w : w = [v EXCEPT ![c].stop = FALSE]
      OBVIOUS
    <3>5. Quiet(v, w) /\ w \in Table
      BY <3>3, <3>4, ClearStopQuiet, ClearStopEvolves DEF Evolves
    <3>6. Quiet(u, w)
      BY <3>3, <3>5, QuietTransitive
    <3>7. Stop(t, c) = w
      BY <2>5, <2>8, <3>1, <3>2, <3>4 DEF NotifyStoppedParent
    <3>8. w[c].stop = FALSE /\ w[c].state # "ZOMBIE"
      <4>1. w[c].stop = FALSE
        BY <1>0, <3>3, <3>4 DEF Table, Pcb
      <4>2. w[c].state # "ZOMBIE"
        BY <1>0, <2>2, <2>4, <3>6 DEF Quiet, QuietPcb
      <4>. QED
        BY <4>1, <4>2
    <3>9. ASSUME NEW p \in list, Blocked(w[p])
          PROVE  /\ \E x \in list : Asks(w, p, x)
                 /\ \A x \in list : Asks(w, p, x) =>
                        w[x].state # "ZOMBIE" /\ (w[p].untraced => w[x].stop = FALSE)
      <4>1. /\ Blocked(u[p]) /\ w[p].wait_pid = u[p].wait_pid
            /\ w[p].untraced = u[p].untraced
        BY <1>0, <3>6, <3>9 DEF Quiet, QuietPcb
      <4>2. \A x \in list : Asks(w, p, x) <=> Asks(u, p, x)
        BY <1>0, <3>6, <4>1 DEF Quiet, QuietPcb, Asks
      <4>3. \E x \in list : Asks(w, p, x)
        BY <2>7, <4>1, <4>2 DEF Answered
      <4>4. ASSUME NEW x \in list, Asks(w, p, x), x # c
            PROVE  w[x].state # "ZOMBIE" /\ (w[p].untraced => w[x].stop = FALSE)
        <5>1. t[x].state # "ZOMBIE" /\ (t[p].untraced => t[x].stop = FALSE)
          BY <2>7, <4>1, <4>2, <4>4 DEF Answered
        <5>2. u[x] = t[x] /\ u[p] = t[p]
          BY <1>0, <2>4, <2>7, <4>1, <4>4
        <5>3. QuietPcb(u[x], w[x]) /\ w[x].stop \in BOOLEAN
          BY <1>0, <3>5, <3>6 DEF Quiet, Table, Pcb
        <5>. QED
          BY <4>1, <5>1, <5>2, <5>3 DEF QuietPcb
      <4>. QED
        BY <3>8, <4>3, <4>4
    <3>. QED
      BY <3>7, <3>9 DEF Answered
  <2>9. CASE ~(u[c].parent \in list /\ u[u[c].parent].untraced /\ WaitMatches(u, u[c].parent, c))
    <3>1. Stop(t, c) = u
      BY <2>5, <2>9 DEF NotifyStoppedParent
    <3>2. ASSUME NEW p \in list, Blocked(u[p])
          PROVE  /\ \E x \in list : Asks(u, p, x)
                 /\ \A x \in list : Asks(u, p, x) =>
                        u[x].state # "ZOMBIE" /\ (u[p].untraced => u[x].stop = FALSE)
      <4>1. \E x \in list : Asks(u, p, x)
        BY <2>7, <3>2 DEF Answered
      <4>2. ASSUME Asks(u, p, c) PROVE ~u[p].untraced
        <5>1. u[c].parent = p /\ WaitMatches(u, p, c)
          BY <3>2, <4>2 DEF Asks, WaitMatches, Blocked
        <5>. QED
          BY <2>9, <5>1
      <4>3. ASSUME NEW x \in list, Asks(u, p, x), x # c
            PROVE  u[x].state # "ZOMBIE" /\ (u[p].untraced => u[x].stop = FALSE)
        BY <1>0, <2>4, <2>7, <3>2, <4>3 DEF Answered
      <4>. QED
        BY <2>2, <2>4, <4>1, <4>2, <4>3
    <3>. QED
      BY <3>1, <3>2 DEF Answered
  <2>. QED
    BY <2>8, <2>9
<1>. QED
  BY <1>1, <1>2

\* A process that is not a zombie stops, and no zombie comes back by it.
LEMMA StopFinal ==
    ASSUME NEW t, Listed(t), NEW c \in list, t[c].state # "ZOMBIE"
    PROVE  Final(t, Stop(t, c))
<1>0. t \in Table /\ c \in Pids /\ t[c] \in Pcb
  BY ListedPcb DEF Listed
<1>1. CASE t[c].state = "STOPPED"
  BY <1>1 DEF Stop, Final
<1>2. CASE t[c].state # "STOPPED"
  <2>1. PICK u : u = [t EXCEPT ![c].state = "STOPPED", ![c].stop = TRUE]
    OBVIOUS
  <2>2. PICK w : w = Stop(t, c)
    OBVIOUS
  <2>3. w = NotifyStoppedParent(u, c)
    BY <1>2, <2>1, <2>2 DEF Stop
  <2>4. /\ DOMAIN u = Pids /\ \A p \in Pids \ {c} : u[p] = t[p]
        /\ u[c] = [t[c] EXCEPT !.state = "STOPPED", !.stop = TRUE]
    BY <1>0, <2>1 DEF Table
  <2>5. ASSUME NEW p \in Pids, t[p].state = "ZOMBIE" PROVE w[p].state = "ZOMBIE"
    <3>1. p # c /\ u[p] = t[p]
      BY <2>4, <2>5
    <3>2. CASE w = u
      BY <2>5, <3>1, <3>2
    <3>3. CASE /\ w = [AnswerWait(u, u[c].parent) EXCEPT ![c].stop = FALSE]
               /\ WaitMatches(u, u[c].parent, c)
      <4>1. u[c].parent # p
        BY <2>5, <3>1, <3>3 DEF WaitMatches
      <4>2. AnswerWait(u, u[c].parent)[p] = u[p]
        BY <2>4, <4>1 DEF AnswerWait
      <4>3. DOMAIN AnswerWait(u, u[c].parent) = Pids
        BY <2>4 DEF AnswerWait
      <4>. QED
        BY <2>5, <3>1, <3>3, <4>2, <4>3
    <3>. QED
      BY <2>3, <3>2, <3>3 DEF NotifyStoppedParent
  <2>. QED
    BY <2>2, <2>5 DEF Final
<1>. QED
  BY <1>1, <1>2

\* signal_send_pid, SIGKILL and SIGSTOP apart.
LEMMA SendQuiet ==
    ASSUME NEW t, Listed(t), NEW q \in list, NEW sig, sig # "STOP"
    PROVE  Quiet(t, SignalSend(t, q, sig))
<1>0. t \in Table /\ q \in Pids /\ t[q] \in Pcb
  BY ListedPcb DEF Listed
<1>1. CASE sig = "CONT" /\ t[q].state \in {"STOPPED", "WAITING"}
  <2>1. SignalSend(t, q, sig) = [t EXCEPT ![q].state = "READY"]
    BY <1>1 DEF SignalSend
  <2>. QED
    BY <1>0, <1>1, <2>1, SetStateQuiet, StatesFacts
<1>2. CASE sig = "CONT" /\ t[q].state \notin {"STOPPED", "WAITING"}
  BY <1>2, QuietPcbSame DEF SignalSend, Quiet
<1>3. CASE sig # "CONT"
  <2>1. PICK P : P = t[q].pending \cup ({sig} \cap Pendable)
    OBVIOUS
  <2>2. PICK r : r = [t[q] EXCEPT !.pending = P]
    OBVIOUS
  <2>3. QuietPcb(t[q], r)
    BY <1>0, <2>2 DEF QuietPcb, Blocked, Pcb
  <2>4. SignalSend(t, q, sig) = [t EXCEPT ![q] = r]
    BY <1>3, <2>1, <2>2 DEF SignalSend
  <2>. QED
    BY ZenonT(60), <1>0, <2>3, <2>4, QuietSet
<1>. QED
  BY <1>1, <1>2, <1>3

-----------------------------------------------------------------------------
(* How the kinds of step keep Answered.                                    *)

\* The body of DeathIsFinal.
Settled ==
    \A p \in Pids :
        /\ pcb[p].state = "ZOMBIE" => pcb'[p].state \in {"ZOMBIE", "FREE"}
        /\ pcb[p].state = "DEAD" => pcb'[p].state \in {"DEAD", "FREE"}

LEMMA KeepsSettled ==
    ASSUME NEW t, Keeps(pcb, t), Final(pcb, t),
           \A p \in Pids : pcb'[p].state \in {t[p].state, "FREE"}
    PROVE  Settled
<1>1. ASSUME NEW p \in Pids
      PROVE  /\ pcb[p].state = "ZOMBIE" => pcb'[p].state \in {"ZOMBIE", "FREE"}
             /\ pcb[p].state = "DEAD" => pcb'[p].state \in {"DEAD", "FREE"}
  <2>1. pcb[p].state = "ZOMBIE" => t[p].state = "ZOMBIE"
    BY DEF Final
  <2>2. pcb[p].state = "DEAD" => t[p].state = "DEAD"
    BY StatesFacts DEF Keeps
  <2>. QED
    BY <2>1, <2>2
<1>. QED
  BY <1>1 DEF Settled

\* The table changes quietly and no process comes or goes.
LEMMA QuietStep ==
    ASSUME IInv, Answered(pcb, list), NEW t, Keeps(pcb, t), Quiet(pcb, t),
           pcb' = t, list' = list
    PROVE  Answered(pcb', list') /\ Settled
<1>1. pcb \in Table /\ t \in Table /\ list \subseteq Pids
  BY DEF IInv, Static, Keeps
<1>2. Answered(t, list) /\ Final(pcb, t)
  BY <1>1, QuietAnswered
<1>. QED
  BY <1>2, KeepsSettled

\* The table changes quietly and processes nobody waits for are freed.
LEMMA ReapAnswered ==
    ASSUME IInv, Answered(pcb, list), NEW t, Keeps(pcb, t), Quiet(pcb, t),
           NEW X \in SUBSET Allocated,
           pcb' = [p \in Pids |-> IF p \in X THEN FreePcb ELSE t[p]],
           list' = list \ X,
           \A c \in X \cap list : \A p \in list \ X : Blocked(t[p]) => ~Asks(t, p, c)
    PROVE  Answered(pcb', list') /\ Settled
<1>1. pcb \in Table /\ t \in Table /\ list \subseteq Pids
  BY DEF IInv, Static, Keeps
<1>2. Answered(t, list) /\ Final(pcb, t)
  BY <1>1, QuietAnswered
<1>3. \A p \in list' : p \in list /\ p \notin X /\ pcb'[p] = t[p]
  BY <1>1
<1>4. ASSUME NEW p \in list', Blocked(pcb'[p])
      PROVE  /\ \E c \in list' : Asks(pcb', p, c)
             /\ \A c \in list' : Asks(pcb', p, c) =>
                    pcb'[c].state # "ZOMBIE" /\ (pcb'[p].untraced => pcb'[c].stop = FALSE)
  <2>1. p \in list \ X /\ Blocked(t[p])
    BY <1>3, <1>4
  <2>2. \A c \in list' : Asks(pcb', p, c) <=> Asks(t, p, c)
    BY <1>3 DEF Asks
  <2>3. PICK c \in list : Asks(t, p, c)
    BY <1>2, <2>1 DEF Answered
  <2>4. c \notin X
    BY <2>1, <2>3
  <2>. QED
    BY <1>2, <1>3, <2>1, <2>2, <2>3, <2>4 DEF Answered
<1>5. Answered(pcb', list')
  BY <1>4 DEF Answered
<1>6. \A p \in Pids : pcb'[p].state \in {t[p].state, "FREE"}
  BY DEF FreePcb
<1>. QED
  BY <1>2, <1>5, <1>6, KeepsSettled

\* The table changes quietly and a process is born.
LEMMA BirthAnswered ==
    ASSUME IInv, Answered(pcb, list), NEW t, Keeps(pcb, t), Quiet(pcb, t),
           next_pid \in Pids, NEW r, ~Blocked(r), r.state # "ZOMBIE", r.stop = FALSE,
           pcb' = [t EXCEPT ![next_pid] = r], list' = list \cup {next_pid}
    PROVE  Answered(pcb', list') /\ Settled
<1>1. pcb \in Table /\ t \in Table /\ list \subseteq Pids
  BY DEF IInv, Static, Keeps
<1>2. Answered(t, list) /\ Final(pcb, t)
  BY <1>1, QuietAnswered
<1>3. next_pid \notin list /\ pcb[next_pid].state = "FREE"
  BY StatesFacts DEF IInv, Static, Pids
<1>4. pcb'[next_pid] = r /\ \A p \in Pids \ {next_pid} : pcb'[p] = t[p]
  BY <1>1 DEF Table
<1>5. ASSUME NEW p \in list', Blocked(pcb'[p])
      PROVE  /\ \E c \in list' : Asks(pcb', p, c)
             /\ \A c \in list' : Asks(pcb', p, c) =>
                    pcb'[c].state # "ZOMBIE" /\ (pcb'[p].untraced => pcb'[c].stop = FALSE)
  <2>1. p # next_pid /\ p \in list /\ pcb'[p] = t[p]
    BY <1>1, <1>4, <1>5
  <2>2. \A c \in list : c # next_pid /\ pcb'[c] = t[c] /\ (Asks(pcb', p, c) <=> Asks(t, p, c))
    BY <1>1, <1>3, <1>4, <2>1 DEF Asks
  <2>3. /\ \E c \in list : Asks(t, p, c)
        /\ \A c \in list : Asks(t, p, c) =>
                t[c].state # "ZOMBIE" /\ (t[p].untraced => t[c].stop = FALSE)
    BY <1>2, <1>5, <2>1 DEF Answered
  <2>. QED
    BY <1>4, <2>1, <2>2, <2>3
<1>6. Answered(pcb', list')
  BY <1>5 DEF Answered
<1>7. ASSUME NEW p \in Pids
      PROVE  /\ pcb[p].state = "ZOMBIE" => pcb'[p].state \in {"ZOMBIE", "FREE"}
             /\ pcb[p].state = "DEAD" => pcb'[p].state \in {"DEAD", "FREE"}
  <2>1. CASE p = next_pid
    BY <1>3, <2>1
  <2>2. CASE p # next_pid
    <3>1. pcb'[p] = t[p]
      BY <1>4, <2>2
    <3>2. pcb[p].state = "DEAD" => t[p].state = "DEAD"
      BY StatesFacts DEF Keeps
    <3>. QED
      BY <1>2, <3>1, <3>2 DEF Final
  <2>. QED
    BY <2>1, <2>2
<1>. QED
  BY <1>6, <1>7 DEF Settled

\* What the death of v does to the table: everybody else changes quietly.
LEMMA AfterDeathFacts ==
    ASSUME IInv, NEW v \in list
    PROVE  /\ \A p \in Pids \ {v} : QuietPcb(pcb[p], AfterDeath(v)[p])
           /\ AfterDeath(v)[v].state = "ZOMBIE"
           /\ \A p \in Pids : /\ AfterDeath(v)[p].parent = pcb[p].parent
                              /\ AfterDeath(v)[p].thread = pcb[p].thread
<1>0. /\ pcb \in Table /\ v \in Pids /\ pcb[v] \in Pcb /\ Listed(pcb)
  BY StaticListed, ListedPcb DEF IInv, Static
<1>1. PICK r : r = [pcb[v] EXCEPT !.state = "ZOMBIE", !.pending = {}, !.ctid = 0]
  OBVIOUS
<1>2. /\ r \in Pcb /\ r.state = "ZOMBIE" /\ r.parent = pcb[v].parent
      /\ r.thread = pcb[v].thread /\ r.stack = pcb[v].stack /\ r.dir = pcb[v].dir
  <2>1. PICK x \in States, z \in PidOrNone, m \in Pcb : x = "ZOMBIE" /\ z = 0 /\ m = pcb[v]
    BY <1>0, StatesFacts, NoPid
  <2>2. r = [m EXCEPT !.state = x, !.pending = {}, !.ctid = z]
    BY <1>1, <2>1
  <2>. QED
    BY <2>1, <2>2 DEF Pcb
<1>3. PICK u : u = [pcb EXCEPT ![v] = r]
  OBVIOUS
<1>4. u \in Table /\ u[v] = r /\ \A p \in Pids \ {v} : u[p] = pcb[p]
  BY <1>0, <1>2, <1>3 DEF Table
<1>5. Listed(u)
  BY <1>0, <1>2, <1>4, StatesFacts DEF Listed
<1>6. PICK w : w = WakeFutex(u, pcb[v].ctid, pcb[v].dir, FALSE)
  OBVIOUS
<1>7. Quiet(u, w) /\ Listed(w)
  BY <1>5, <1>6, WakeFutexQuiet, WakeFutexEvolves, EvolvesListed
<1>8. PICK x : x = ReleaseVforkParent(w, v)
  OBVIOUS
<1>9. Quiet(u, x)
  BY <1>0, <1>7, <1>8, ReleaseQuiet, QuietTransitive
<1>10. AfterDeath(v) = x
  BY <1>1, <1>3, <1>6, <1>8 DEF AfterDeath
<1>11. ASSUME NEW p \in Pids PROVE QuietPcb(u[p], x[p])
  BY <1>9 DEF Quiet
<1>12. \A p \in Pids \ {v} : QuietPcb(pcb[p], x[p])
  BY <1>4, <1>11
<1>13. /\ x[v].state = "ZOMBIE" /\ x[v].parent = pcb[v].parent
       /\ x[v].thread = pcb[v].thread
  <2>1. QuietPcb(r, x[v])
    BY <1>0, <1>4, <1>11
  <2>. QED
    BY ONLY <1>2, <2>1 DEF QuietPcb
<1>14. \A p \in Pids \ {v} : x[p].parent = pcb[p].parent /\ x[p].thread = pcb[p].thread
  BY <1>12 DEF QuietPcb
<1>. QED
  BY <1>10, <1>12, <1>13, <1>14

LEMMA MarkExitedAnswered ==
    ASSUME IInv, Answered(pcb, list), MarkExited
    PROVE  Answered(pcb', list') /\ Settled
<1>0. /\ kpc = "die" /\ arg \in list /\ arg \in Pids /\ Listed(pcb) /\ pcb \in Table
      /\ pcb[arg].state # "ZOMBIE" /\ list \subseteq Pids
  BY StaticListed DEF MarkExited, IInv, Static, Dynamic, KernelStepsSound
<1>1. PICK t : t = AfterDeath(arg)
  OBVIOUS
<1>2. Evolves(pcb, t) /\ Listed(t) /\ t \in Table
  BY <1>0, <1>1, AfterDeathEvolves, EvolvesListed DEF Listed
<1>3. /\ \A p \in Pids \ {arg} : QuietPcb(pcb[p], t[p])
      /\ t[arg].state = "ZOMBIE"
      /\ \A p \in Pids : t[p].parent = pcb[p].parent /\ t[p].thread = pcb[p].thread
  BY <1>0, <1>1, AfterDeathFacts
<1>4. PICK pa : pa = pcb[arg].parent
  OBVIOUS
<1>5. \A p \in Pids : pcb[p].thread \in BOOLEAN
  BY <1>0 DEF Table, Pcb
\* Whatever table u the routine leaves, everybody else but the answered parent
\* is as after the death.
<1>6. ASSUME NEW u \in Table, \A p \in Pids \ {arg} : QuietPcb(t[p], u[p]),
             u[arg].parent = pcb[arg].parent, u[arg].thread = pcb[arg].thread,
             u[arg].state \in {"ZOMBIE", "DEAD"},
             NEW L, list \ {arg} \subseteq L, L \subseteq list,
             \A p \in L : Blocked(u[p]) => ~Asks(u, p, arg)
      PROVE  Answered(u, L)
  <2>1. ASSUME NEW p \in L, Blocked(u[p])
        PROVE  /\ \E c \in L : Asks(u, p, c)
               /\ \A c \in L : Asks(u, p, c) =>
                      u[c].state # "ZOMBIE" /\ (u[p].untraced => u[c].stop = FALSE)
    <3>1. p # arg /\ p \in list /\ p \in Pids
      BY <1>0, <1>6, <2>1 DEF Blocked
    <3>2. QuietPcb(pcb[p], u[p])
      BY <1>3, <1>6, <3>1 DEF QuietPcb
    <3>3. /\ Blocked(pcb[p]) /\ u[p].wait_pid = pcb[p].wait_pid
          /\ u[p].untraced = pcb[p].untraced
      BY <2>1, <3>2 DEF QuietPcb
    <3>4. \A c \in list : u[c].parent = pcb[c].parent /\ u[c].thread = pcb[c].thread
      BY <1>0, <1>3, <1>6 DEF QuietPcb
    <3>5. \A c \in list : Asks(u, p, c) <=> Asks(pcb, p, c)
      BY <3>3, <3>4 DEF Asks
    <3>6. ~Asks(u, p, arg)
      BY <1>6, <2>1
    <3>7. \E c \in L : Asks(u, p, c)
      BY <1>6, <3>1, <3>3, <3>5, <3>6 DEF Answered
    <3>8. ASSUME NEW c \in L, Asks(u, p, c)
          PROVE  u[c].state # "ZOMBIE" /\ (u[p].untraced => u[c].stop = FALSE)
      <4>1. c # arg /\ c \in list /\ c \in Pids
        BY <1>0, <1>6, <3>6, <3>8
      <4>2. pcb[c].state # "ZOMBIE" /\ (pcb[p].untraced => pcb[c].stop = FALSE)
        BY <3>1, <3>3, <3>5, <3>8, <4>1 DEF Answered
      <4>3. QuietPcb(pcb[c], t[c]) /\ QuietPcb(t[c], u[c])
        BY <1>3, <1>6, <4>1
      <4>4. pcb[c].stop \in BOOLEAN /\ t[c].stop \in BOOLEAN /\ u[c].stop \in BOOLEAN
        BY <1>0, <1>2, <4>1 DEF Table, Pcb
      <4>. QED
        BY <3>3, <4>2, <4>3, <4>4 DEF QuietPcb
    <3>. QED
      BY <3>7, <3>8
  <2>. QED
    BY <2>1 DEF Answered
\* Nobody but arg itself asks for a thread; the parent that waits is answered.
<1>7. CASE LeavesAtDeath(arg)
  <2>1. PICK u : u = IF pcb[arg].thread THEN t ELSE AnswerWait(t, pa)
    OBVIOUS
  <2>2. pcb' = [u EXCEPT ![arg].state = "DEAD"] /\ list' = list \ {arg}
    BY <1>1, <1>4, <1>7, <2>1 DEF MarkExited
  <2>3. /\ u \in Table /\ Quiet(t, u) /\ Evolves(pcb, u)
        /\ ~pcb[arg].thread => pa \in list /\ pa # arg /\ u[pa].state = "READY"
    <3>1. CASE pcb[arg].thread
      BY <1>2, <2>1, <3>1, QuietPcbSame DEF Quiet
    <3>2. CASE ~pcb[arg].thread
      <4>1. pa \in list /\ t[pa].state = "WAITING" /\ u = AnswerWait(t, pa)
        BY <1>1, <1>4, <1>7, <2>1, <3>2 DEF LeavesAtDeath, AnswersWait, WaitMatches
      <4>2. Evolves(t, u) /\ Quiet(t, u)
        BY <1>2, <4>1, AnswerEvolves, AnswerQuiet
      <4>3. u[pa].state = "READY"
        BY <1>2, <4>1, ListedPcb DEF AnswerWait, Table, Pcb
      <4>4. pa # arg
        BY <1>3, <4>1
      <4>. QED
        BY SMTT(30), <1>0, <1>2, <4>1, <4>2, <4>3, <4>4, EvolvesTransitive DEF Evolves
    <3>. QED
      BY <3>1, <3>2
  <2>4. /\ \A p \in Pids \ {arg} : pcb'[p] = u[p]
        /\ pcb'[arg] = [u[arg] EXCEPT !.state = "DEAD"]
    BY <1>0, <2>2, <2>3 DEF Table
  <2>5. /\ pcb'[arg].state = "DEAD" /\ pcb'[arg].parent = pa
        /\ pcb'[arg].thread = pcb[arg].thread
    <3>1. u[arg] \in Pcb /\ u[arg].parent = pa /\ u[arg].thread = pcb[arg].thread
      BY <1>0, <1>3, <1>4, <2>3 DEF Table, Quiet, QuietPcb
    <3>. QED
      BY <2>4, <3>1 DEF Pcb
  <2>6. pcb' \in Table
    <3>1. [u[arg] EXCEPT !.state = "DEAD"] \in Pcb
      BY <1>0, <2>3, SetState, StatesFacts DEF Table
    <3>2. pcb' = [u EXCEPT ![arg] = [u[arg] EXCEPT !.state = "DEAD"]]
      BY <2>2
    <3>. QED
      BY <1>0, <2>3, <3>1, <3>2 DEF Table
  <2>7. \A p \in Pids \ {arg} : QuietPcb(t[p], pcb'[p])
    BY <2>3, <2>4 DEF Quiet
  <2>8. \A p \in list' : Blocked(pcb'[p]) => ~Asks(pcb', p, arg)
    BY <1>0, <1>5, <2>2, <2>3, <2>4, <2>5 DEF Asks, Blocked
  <2>9. Answered(pcb', list')
    BY <1>4, <1>6, <2>2, <2>5, <2>6, <2>7, <2>8
  <2>10. ASSUME NEW p \in Pids
         PROVE  /\ pcb[p].state = "ZOMBIE" => pcb'[p].state \in {"ZOMBIE", "FREE"}
                /\ pcb[p].state = "DEAD" => pcb'[p].state \in {"DEAD", "FREE"}
    <3>1. CASE p = arg
      BY <1>0, <2>5, <3>1
    <3>2. CASE p # arg
      BY <1>3, <2>3, <2>4, <3>2, StatesFacts DEF Quiet, QuietPcb, Evolves
    <3>. QED
      BY <3>1, <3>2
  <2>. QED
    BY <2>9, <2>10 DEF Settled
\* A parent whose wait the zombie could end has been woken.
<1>8. CASE ~LeavesAtDeath(arg)
  <2>1. PICK u : u = IF pa \in list /\ t[pa].state = "WAITING" /\ t[pa].vfork_child = 0
                     THEN [t EXCEPT ![pa].state = "READY"] ELSE t
    OBVIOUS
  <2>2. pcb' = u /\ list' = list
    BY <1>1, <1>4, <1>8, <2>1 DEF MarkExited
  <2>3. /\ Quiet(t, u) /\ Evolves(t, u) /\ u \in Table
        /\ pa \in list => ~Blocked(u[pa])
    <3>1. CASE pa \in list /\ t[pa].state = "WAITING" /\ t[pa].vfork_child = 0
      <4>1. u = [t EXCEPT ![pa].state = "READY"] /\ pa \in Pids
        BY <1>0, <2>1, <3>1
      <4>2. u[pa].state = "READY"
        BY <1>2, <4>1 DEF Table, Pcb
      <4>3. Quiet(t, u) /\ Evolves(t, u)
        BY <1>2, <3>1, <4>1, SetStateQuiet, SetStateEvolves, StatesFacts
      <4>. QED
        BY <4>2, <4>3 DEF Blocked, Evolves
    <3>2. CASE ~(pa \in list /\ t[pa].state = "WAITING" /\ t[pa].vfork_child = 0)
      BY <1>2, <2>1, <3>2, SameEvolves, QuietPcbSame DEF Quiet, Blocked
    <3>. QED
      BY <3>1, <3>2
  <2>4. \A p \in Pids \ {arg} : QuietPcb(t[p], u[p])
    BY <2>3 DEF Quiet
  <2>5. /\ u[arg].state = "ZOMBIE" /\ u[arg].parent = pa
        /\ u[arg].thread = pcb[arg].thread
    BY <1>0, <1>3, <1>4, <2>3 DEF Quiet, QuietPcb
  <2>6. \A p \in list : Blocked(u[p]) => ~Asks(u, p, arg)
    BY <2>3, <2>5 DEF Asks
  <2>7. Answered(pcb', list')
    BY <1>4, <1>6, <2>2, <2>3, <2>4, <2>5, <2>6
  <2>8. ASSUME NEW p \in Pids
        PROVE  /\ pcb[p].state = "ZOMBIE" => pcb'[p].state \in {"ZOMBIE", "FREE"}
               /\ pcb[p].state = "DEAD" => pcb'[p].state \in {"DEAD", "FREE"}
    <3>1. CASE p = arg
      BY <2>2, <2>5, <3>1, <1>0, StatesFacts DEF IInv, Static
    <3>2. CASE p # arg
      <4>1. Evolves(pcb, u)
        BY <1>0, <1>2, <2>3, EvolvesTransitive
      <4>. QED
        BY <1>3, <2>2, <2>4, <3>2, <4>1, StatesFacts DEF QuietPcb, Evolves
    <3>. QED
      BY <3>1, <3>2
  <2>. QED
    BY <2>7, <2>8 DEF Settled
<1>. QED
  BY <1>7, <1>8

LEMMA TimerAnswered ==
    ASSUME IInv, Answered(pcb, list), NEW woken \in SUBSET Pids, Timer(woken)
    PROVE  Answered(pcb', list') /\ Settled
<1>1. PICK t : t = pcb'
  OBVIOUS
<1>2. pcb \in Table /\ \A q \in Pids : pcb[q] \in Pcb
  BY DEF IInv, Static, Table
<1>3. ASSUME NEW q \in Pids
      PROVE  /\ QuietPcb(pcb[q], t[q]) /\ t[q] \in Pcb
             /\ t[q].stack = pcb[q].stack /\ t[q].dir = pcb[q].dir
             /\ \/ t[q].state = pcb[q].state
                \/ pcb[q].state \in LiveStates /\ t[q].state \in LiveStates
  <2>1. CASE q \notin woken
    BY <1>1, <1>2, <2>1, QuietPcbSame DEF Timer
  <2>2. CASE q \in woken
    <3>1. /\ \/ t[q] = [pcb[q] EXCEPT !.state = "READY"]
             \/ t[q] = [pcb[q] EXCEPT !.state = "READY", !.futex = 0]
          /\ pcb[q].state # "ZOMBIE" /\ pcb[q].state \in {"SLEEPING", "WAITING"}
      BY <1>1, <2>2 DEF Timer
    <3>2. [pcb[q] EXCEPT !.state = "READY"] \in Pcb
      BY <1>2, SetState, StatesFacts
    <3>3. [pcb[q] EXCEPT !.state = "READY", !.futex = 0] \in Pcb
      <4>1. ASSUME NEW x \in Pcb, NEW s \in States, NEW c \in PidOrNone
            PROVE  [x EXCEPT !.state = s, !.futex = c] \in Pcb
        BY DEF Pcb
      <4>. QED
        BY <1>2, <4>1, NoPid, StatesFacts
    <3>4. /\ t[q] \in Pcb /\ QuietPcb(pcb[q], t[q])
          /\ t[q].stack = pcb[q].stack /\ t[q].dir = pcb[q].dir /\ t[q].state = "READY"
      BY <1>2, <3>1, <3>2, <3>3 DEF QuietPcb, Blocked, Pcb
    <3>. QED
      BY <3>1, <3>4, StatesFacts
  <2>. QED
    BY <2>1, <2>2
<1>4. t \in Table
  BY <1>1, <1>3 DEF Timer, Table
<1>5. Keeps(pcb, t)
  BY <1>3, <1>4 DEF Keeps
<1>6. Quiet(pcb, t)
  BY <1>3 DEF Quiet
<1>. QED
  BY <1>1, <1>5, <1>6, QuietStep DEF Timer

LEMMA HandleTrapAnswered ==
    ASSUME IInv, Answered(pcb, list), HandleTrap
    PROVE  Answered(pcb', list') /\ Settled
<1>0. Listed(pcb) /\ pcb \in Table
  BY StaticListed DEF IInv, Static
<1>1. PICK t : pcb' = t
  OBVIOUS
<1>2. CASE current # 0 /\ pcb[current].state = "RUNNING"
  <2>1. current \in list /\ current \in Pids
    BY <1>2, StatesFacts DEF IInv, Static, Dynamic, PidOrNone, Pids
  <2>2. t = [pcb EXCEPT ![current].state = "READY"]
    BY <1>1, <1>2 DEF HandleTrap
  <2>3. Evolves(pcb, t) /\ Quiet(pcb, t)
    BY <1>0, <1>2, <2>1, <2>2, SetStateEvolves, SetStateQuiet, StatesFacts
  <2>. QED
    BY <1>1, <2>3, EvolvesKeeps, QuietStep DEF HandleTrap
<1>3. CASE ~(current # 0 /\ pcb[current].state = "RUNNING")
  BY <1>0, <1>3, SameEvolves, EvolvesKeeps, QuietPcbSame, QuietStep DEF HandleTrap, Quiet
<1>. QED
  BY <1>2, <1>3

LEMMA SameKeeps == ASSUME IInv PROVE Keeps(pcb, pcb) /\ Quiet(pcb, pcb) /\ pcb \in Table
BY StaticListed, SameEvolves, EvolvesKeeps, QuietPcbSame DEF IInv, Static, Quiet

\* Nobody waits for the DEAD: they are on the deferred-reap list only.
LEMMA PickIdleAnswered ==
    ASSUME IInv, Answered(pcb, list), PickIdle
    PROVE  Answered(pcb', list') /\ Settled
<1>1. PICK X : X = Reapable(0)
  OBVIOUS
<1>2. X \in SUBSET Allocated /\ list \cap X = {}
  BY <1>1, StatesFacts DEF Reapable, Allocated, IInv, Static
<1>3. /\ pcb' = [p \in Pids |-> IF p \in X THEN FreePcb ELSE pcb[p]]
      /\ list' = list \ X
  BY <1>1 DEF PickIdle, Reap
<1>. QED
  BY <1>2, <1>3, SameKeeps, ReapAnswered

LEMMA DispatchSignalAnswered ==
    ASSUME IInv, Answered(pcb, list), DispatchSignal
    PROVE  Answered(pcb', list') /\ Settled
<1>1. /\ arg \in list /\ arg \in Pids /\ Listed(pcb) /\ pcb \in Table
      /\ pcb[arg].state = "READY" /\ pcb[arg] \in Pcb
  BY StaticListed, ListedPcb DEF DispatchSignal, IInv, Static, Dynamic, KernelStepsSound
<1>2. PICK P : P = pcb[arg].pending \ {NextSignal(arg)}
  OBVIOUS
<1>3. PICK r : r = [pcb[arg] EXCEPT !.pending = P]
  OBVIOUS
<1>4. r \in Pcb /\ QuietPcb(pcb[arg], r) /\ r.state = "READY"
      /\ r.stack = pcb[arg].stack /\ r.dir = pcb[arg].dir
  <2>1. P \in SUBSET Pendable
    BY <1>1, <1>2 DEF Pcb
  <2>2. PICK m \in Pcb : m = pcb[arg]
    BY <1>1
  <2>3. r = [m EXCEPT !.pending = P]
    BY <1>3, <2>2
  <2>. QED
    BY <1>1, <2>1, <2>2, <2>3 DEF QuietPcb, Blocked, Pcb
<1>5. PICK t : t = [pcb EXCEPT ![arg] = r]
  OBVIOUS
<1>6. /\ Evolves(pcb, t) /\ Listed(t) /\ Quiet(pcb, t) /\ t \in Table
      /\ t[arg].state = "READY"
  BY <1>1, <1>4, <1>5, SetEvolves, EvolvesListed, QuietSet DEF Listed, Table
<1>7. t = [pcb EXCEPT ![arg].pending = @ \ {NextSignal(arg)}]
  BY <1>2, <1>3, <1>5
<1>8. CASE pcb' = t
  BY <1>6, <1>8, EvolvesKeeps, QuietStep DEF DispatchSignal
<1>9. CASE pcb' = Stop(t, arg)
  <2>1. Answered(t, list) /\ Final(pcb, t)
    BY <1>1, <1>6, QuietAnswered DEF Listed
  <2>2. Answered(Stop(t, arg), list) /\ Final(t, Stop(t, arg)) /\ Evolves(t, Stop(t, arg))
    BY <1>1, <1>6, <2>1, StopAnswered, StopFinal, StopEvolves
  <2>3. Final(pcb, pcb') /\ Keeps(pcb, pcb')
    BY <1>1, <1>6, <1>9, <2>1, <2>2, EvolvesTransitive, EvolvesKeeps DEF Final
  <2>. QED
    BY <1>9, <2>2, <2>3, KeepsSettled DEF DispatchSignal
<1>. QED
  BY <1>7, <1>8, <1>9 DEF DispatchSignal

LEMMA RunAnswered ==
    ASSUME IInv, Answered(pcb, list), Run
    PROVE  Answered(pcb', list') /\ Settled
<1>1. /\ arg \in list /\ arg \in Pids /\ pcb[arg].state = "READY" /\ pcb[arg] \in Pcb
      /\ pcb \in Table
  BY StaticListed, ListedPcb DEF Run, IInv, Static, Dynamic, KernelStepsSound
<1>2. PICK t : t = [pcb EXCEPT ![arg].state = "RUNNING"]
  OBVIOUS
<1>3. Quiet(pcb, t)
  BY <1>1, <1>2, SetStateQuiet, StatesFacts
<1>4. Keeps(pcb, t)
  <2>1. PICK r \in Pcb : r = [pcb[arg] EXCEPT !.state = "RUNNING"]
    BY <1>1, SetState, StatesFacts
  <2>2. r.stack = pcb[arg].stack /\ r.dir = pcb[arg].dir /\ r.state = "RUNNING"
    BY <1>1, <2>1 DEF Pcb
  <2>3. t \in Table /\ t[arg] = r /\ \A p \in Pids \ {arg} : t[p] = pcb[p]
    BY <1>1, <1>2, <2>1 DEF Table
  <2>. QED
    BY <1>1, <2>2, <2>3, StatesFacts DEF Keeps
<1>5. PICK X : X = Reapable(arg)
  OBVIOUS
<1>6. X \in SUBSET Allocated /\ list \cap X = {}
  BY <1>5, StatesFacts DEF Reapable, Allocated, IInv, Static
<1>7. /\ pcb' = [p \in Pids |-> IF p \in X THEN FreePcb ELSE t[p]]
      /\ list' = list \ X
  BY <1>2, <1>5 DEF Run, Reap
<1>. QED
  BY <1>3, <1>4, <1>6, <1>7, ReapAnswered

LEMMA StopStates ==
    ASSUME NEW t, Listed(t), NEW c \in list
    PROVE  \A p \in Pids : Stop(t, c)[p].state \in {t[p].state, "STOPPED", "READY"}
<1>0. t \in Table /\ c \in Pids /\ t[c] \in Pcb
  BY ListedPcb DEF Listed
<1>1. CASE t[c].state = "STOPPED"
  BY <1>1 DEF Stop
<1>2. CASE t[c].state # "STOPPED"
  <2>1. PICK u : u = [t EXCEPT ![c].state = "STOPPED", ![c].stop = TRUE]
    OBVIOUS
  <2>2. Stop(t, c) = NotifyStoppedParent(u, c)
    BY <1>2, <2>1 DEF Stop
  <2>3. /\ DOMAIN u = Pids /\ u[c].state = "STOPPED" /\ u[c] \in Pcb
        /\ \A p \in Pids \ {c} : u[p] = t[p]
    <3>1. PICK r : r = [t[c] EXCEPT !.state = "STOPPED", !.stop = TRUE]
      OBVIOUS
    <3>2. r \in Pcb /\ r.state = "STOPPED"
      <4>1. PICK x \in States, m \in Pcb : x = "STOPPED" /\ m = t[c]
        BY <1>0, StatesFacts
      <4>2. r = [m EXCEPT !.state = x, !.stop = TRUE]
        BY <3>1, <4>1
      <4>. QED
        BY <4>1, <4>2 DEF Pcb
    <3>3. u = [t EXCEPT ![c] = r]
      BY <1>0, <2>1, <3>1 DEF Table, Pcb
    <3>. QED
      BY <1>0, <3>2, <3>3 DEF Table
  <2>4. u \in Table
    <3>1. u = [p \in Pids |-> IF p = c THEN u[c] ELSE t[p]]
      BY <1>0, <2>1, <2>3 DEF Table
    <3>. QED
      BY <1>0, <2>3, <3>1 DEF Table
  <2>5. ASSUME NEW p \in Pids
        PROVE  Stop(t, c)[p].state \in {u[p].state, "READY"}
    <3>1. CASE Stop(t, c) = u
      BY <3>1
    <3>2. CASE /\ Stop(t, c) = [AnswerWait(u, u[c].parent) EXCEPT ![c].stop = FALSE]
               /\ u[c].parent \in list
      <4>1. PICK pa \in Pids : pa = u[c].parent
        BY <3>2 DEF Listed
      <4>2. PICK v : v = AnswerWait(u, pa)
        OBVIOUS
      <4>3. PICK r : r = [u[pa] EXCEPT !.state = "READY", !.wait_pid = 0, !.untraced = FALSE]
        OBVIOUS
      <4>4. v = [u EXCEPT ![pa] = r] /\ r.state = "READY" /\ r \in Pcb
        <5>1. v = [u EXCEPT ![pa] = r]
          BY <2>4, <4>1, <4>2, <4>3 DEF AnswerWait, Table, Pcb
        <5>2. PICK x \in States, z \in PidOrNone, m \in Pcb : x = "READY" /\ z = 0 /\ m = u[pa]
          BY <2>4, StatesFacts, NoPid DEF Table
        <5>3. r = [m EXCEPT !.state = x, !.wait_pid = z, !.untraced = FALSE]
          BY <4>3, <5>2
        <5>4. r.state = "READY" /\ r \in Pcb
          BY <5>2, <5>3 DEF Pcb
        <5>. QED
          BY <5>1, <5>4
      <4>5. v \in Table /\ v[p].state \in {u[p].state, "READY"}
        BY <2>4, <4>1, <4>4 DEF Table
      <4>6. [v EXCEPT ![c].stop = FALSE][p].state = v[p].state
        BY <1>0, <4>5 DEF Table, Pcb
      <4>. QED
        BY <3>2, <4>1, <4>2, <4>5, <4>6
    <3>. QED
      BY <2>2, <3>1, <3>2 DEF NotifyStoppedParent
  <2>. QED
    BY <2>3, <2>5
<1>. QED
  BY <1>1, <1>2

-----------------------------------------------------------------------------
(* The group loop never stops a zombie, unless a program does so itself.   *)

StopsLiving ==
    /\ kpc \in {"pgrp", "pgnext"} /\ pgsig.sig = "STOP" =>
            \A q \in list : pcb[q].state # "ZOMBIE"
    /\ kpc = "die" /\ ret = "pgnext" => pgsig.sig = "KILL"

LEMMA StopsLivingStep ==
    ASSUME IInv, StopsLiving, "stopzombie" \notin Calls, [Next]_vars
    PROVE  StopsLiving'
<1>0. list \subseteq Pids /\ Listed(pcb)
  BY StaticListed DEF IInv, Static
\* Outside the loop there is nothing to show.
<1>1. CASE kpc' \notin {"pgrp", "pgnext"} /\ ~(kpc' = "die" /\ ret' = "pgnext")
  BY <1>1 DEF StopsLiving
<1>2. CASE UNCHANGED vars
  BY <1>2 DEF StopsLiving, vars
<1>3. ASSUME NEW g \in Groups, NEW sig \in Signals, KillPgrp(g, sig) PROVE StopsLiving'
  <2>1. kpc' = "pgrp" /\ pcb' = pcb /\ list' = list /\ pgsig'.sig = sig
    BY <1>3 DEF KillPgrp, GoTo
  <2>2. CASE sig # "STOP"
    BY <2>1, <2>2 DEF StopsLiving
  <2>3. CASE sig = "STOP"
    <3>1. \A q \in list : CallFor(q, "STOP") \in Calls
      BY <1>3, <2>3 DEF KillPgrp
    <3>2. \A q \in list : pcb[q].state # "ZOMBIE"
      BY <3>1 DEF CallFor
    <3>. QED
      BY <2>1, <3>2 DEF StopsLiving
  <2>. QED
    BY <2>2, <2>3
<1>4. CASE PgrpSend
  <2>1. kpc = "pgrp" /\ arg \in list /\ pgsig' = pgsig /\ list' = list
    BY <1>4 DEF PgrpSend, IInv, Dynamic, KernelStepsSound
  <2>2. CASE pgsig.sig = "KILL"
    <3>1. kpc' = "die" => ret' = "pgnext"
      BY <1>4, <2>2 DEF PgrpSend, Die, GoTo
    <3>. QED
      BY <2>1, <2>2, <3>1 DEF StopsLiving
  <2>3. CASE pgsig.sig # "KILL"
    <3>1. /\ pcb' = pcb \/ pcb' = SignalSend(pcb, arg, pgsig.sig)
          /\ kpc' = "pgnext"
      BY <1>4, <2>3 DEF PgrpSend, GoTo
    <3>2. CASE pgsig.sig = "STOP"
      <4>1. \A q \in list : pcb[q].state # "ZOMBIE"
        BY <2>1, <3>2 DEF StopsLiving
      <4>2. pcb' = pcb \/ pcb' = Stop(pcb, arg)
        BY <3>1, <3>2 DEF SignalSend
      <4>3. \A q \in list : pcb'[q].state \in {pcb[q].state, "STOPPED", "READY"}
        BY <1>0, <2>1, <4>2, StopStates
      <4>. QED
        BY <2>1, <3>1, <4>1, <4>3 DEF StopsLiving
    <3>3. CASE pgsig.sig # "STOP"
      BY <2>1, <3>1, <3>3 DEF StopsLiving
    <3>. QED
      BY <3>2, <3>3
  <2>. QED
    BY <2>2, <2>3
<1>5. CASE PgrpNext
  <2>1. kpc = "pgnext" /\ pcb' = pcb /\ list' = list
    BY <1>5 DEF PgrpNext
  <2>2. \/ kpc' = "trap"
        \/ kpc' = "pgrp" /\ pgsig' = pgsig
    BY <1>5 DEF PgrpNext, GoTo
  <2>. QED
    BY <2>1, <2>2 DEF StopsLiving
<1>6. CASE MarkExited
  <2>1. kpc' = ret /\ kpc = "die" /\ pgsig' = pgsig /\ ret' = "trap"
    BY <1>6 DEF MarkExited, GoTo
  <2>2. ret = "pgnext" => pgsig.sig = "KILL"
    BY <2>1 DEF StopsLiving
  <2>. QED
    BY <2>1, <2>2 DEF StopsLiving, IInv, Dynamic
<1>7. CASE Syscall
  <2>1. kpc' \notin {"pgrp", "pgnext"} /\ (kpc' = "die" => ret' # "pgnext")
    BY <1>7 DEF Syscall, Fork, ForkFails, Vfork, Exec, ExecFails, Exit, FatalFault, Sleep,
       CloneThread, WaitReports, WaitFindsNothing, FutexWait, FutexWake, Setpgid, Kill,
       Die, GoTo
  <2>. QED
    BY <1>1, <2>1
<1>8. CASE \E woken \in SUBSET Pids : Timer(woken)
  <2>1. kpc' \in {"halt", "trap"}
    BY <1>8 DEF Timer, GoTo
  <2>. QED
    BY <1>1, <2>1
<1>9. CASE HandleTrap \/ PickIdle \/ DispatchSignal \/ Run \/ \E p \in Pids : PickNext(p)
  <2>1. kpc' \notin {"pgrp", "pgnext"} /\ (kpc' = "die" => ret' # "pgnext")
    BY <1>9 DEF HandleTrap, PickIdle, DispatchSignal, Run, PickNext, Die, GoTo
  <2>. QED
    BY <1>1, <2>1
<1>. QED
  BY <1>2, <1>3, <1>4, <1>5, <1>6, <1>7, <1>8, <1>9 DEF Next, Interrupt, KernelStep

-----------------------------------------------------------------------------
(* The system calls.                                                       *)

\* A process other than a zombie or DEAD: what InCall gives, for the proofs.
LEMMA CallerQuiet ==
    ASSUME IInv, NEW c, InCall(c), NEW r \in Pcb, QuietPcb(pcb[current], r),
           r.stack = pcb[current].stack, r.dir # 0, r.state \in LiveStates
    PROVE  /\ Keeps(pcb, [pcb EXCEPT ![current] = r])
           /\ Quiet(pcb, [pcb EXCEPT ![current] = r])
<1>1. /\ current \in Pids /\ pcb \in Table /\ pcb[current].state = "RUNNING"
  BY Caller DEF Listed
<1>2. PICK t : t = [pcb EXCEPT ![current] = r]
  OBVIOUS
<1>3. t \in Table /\ t[current] = r /\ \A p \in Pids \ {current} : t[p] = pcb[p]
  BY <1>1, <1>2 DEF Table
<1>4. Keeps(pcb, t)
  BY <1>1, <1>3, StatesFacts DEF Keeps
<1>5. Quiet(pcb, t)
  BY <1>1, <1>2, QuietSet
<1>. QED
  BY <1>2, <1>4, <1>5

LEMMA SleepAnswered ==
    ASSUME IInv, Answered(pcb, list), Sleep
    PROVE  Answered(pcb', list') /\ Settled
<1>1. current \in list /\ Listed(pcb) /\ pcb[current].state = "RUNNING"
  BY Caller DEF Sleep
<1>2. PICK t : t = [pcb EXCEPT ![current].state = "SLEEPING"]
  OBVIOUS
<1>3. Evolves(pcb, t) /\ Quiet(pcb, t)
  BY <1>1, <1>2, SetStateEvolves, SetStateQuiet, StatesFacts DEF Listed
<1>. QED
  BY <1>2, <1>3, EvolvesKeeps, QuietStep DEF Sleep

LEMMA FutexWaitAnswered ==
    ASSUME IInv, Answered(pcb, list), NEW a \in Pids, FutexWait(a)
    PROVE  Answered(pcb', list') /\ Settled
<1>1. PICK r : r = [pcb[current] EXCEPT !.state = "WAITING", !.futex = a]
  OBVIOUS
<1>2. /\ InCall("futex") /\ pcb[current] \in Pcb /\ pcb[current].dir # 0
      /\ pcb[current].state = "RUNNING"
  BY Caller DEF FutexWait, Dirs
<1>3. /\ r \in Pcb /\ r.state = "WAITING" /\ r.stack = pcb[current].stack
      /\ r.dir # 0 /\ QuietPcb(pcb[current], r)
  <2>1. PICK x \in States, b \in PidOrNone, m \in Pcb : x = "WAITING" /\ b = a /\ m = pcb[current]
    BY <1>2, StatesFacts, NoPid
  <2>2. r = [m EXCEPT !.state = x, !.futex = b]
    BY <1>1, <2>1
  <2>3. a # 0
    BY DEF Pids
  <2>. QED
    BY <1>2, <2>1, <2>2, <2>3 DEF Pcb, QuietPcb, Blocked
<1>4. PICK t : t = [pcb EXCEPT ![current] = r]
  OBVIOUS
<1>5. Keeps(pcb, t) /\ Quiet(pcb, t)
  BY <1>2, <1>3, <1>4, CallerQuiet, StatesFacts
<1>6. pcb' = t /\ list' = list
  BY <1>1, <1>4 DEF FutexWait
<1>. QED
  BY <1>5, <1>6, QuietStep

LEMMA FutexWakeAnswered ==
    ASSUME IInv, Answered(pcb, list), NEW a \in Pids, NEW all \in BOOLEAN, FutexWake(a, all)
    PROVE  Answered(pcb', list') /\ Settled
<1>1. PICK t : t = WakeFutex(pcb, a, pcb[current].dir, all)
  OBVIOUS
<1>2. Listed(pcb)
  BY StaticListed DEF IInv
<1>3. Evolves(pcb, t) /\ Quiet(pcb, t)
  BY <1>1, <1>2, WakeFutexEvolves, WakeFutexQuiet
<1>. QED
  BY <1>1, <1>3, EvolvesKeeps, QuietStep DEF FutexWake

LEMMA SetpgidAnswered ==
    ASSUME IInv, Answered(pcb, list), NEW q \in Pids, NEW g \in Pids, Setpgid(q, g)
    PROVE  Answered(pcb', list') /\ Settled
<1>1. q \in list /\ Listed(pcb) /\ pcb \in Table /\ pcb[q] \in Pcb
  BY StaticListed, ListedPcb DEF Setpgid, IInv, Static
<1>2. PICK r : r = [pcb[q] EXCEPT !.pgid = g]
  OBVIOUS
<1>3. /\ r \in Pcb /\ r.stack = pcb[q].stack /\ r.dir = pcb[q].dir
      /\ r.state = pcb[q].state /\ QuietPcb(pcb[q], r)
  <2>1. PICK h \in PidOrNone, m \in Pcb : h = g /\ m = pcb[q]
    BY <1>1, NoPid
  <2>2. r = [m EXCEPT !.pgid = h]
    BY <1>2, <2>1
  <2>. QED
    BY <2>1, <2>2 DEF Pcb, QuietPcb, Blocked
<1>4. PICK t : t = [pcb EXCEPT ![q] = r]
  OBVIOUS
<1>5. Evolves(pcb, t) /\ Quiet(pcb, t)
  BY <1>1, <1>3, <1>4, SetEvolves, QuietSet
<1>6. pcb' = t /\ list' = list
  BY <1>2, <1>4 DEF Setpgid
<1>. QED
  BY <1>5, <1>6, EvolvesKeeps, QuietStep

LEMMA ExecFailsAnswered ==
    ASSUME IInv, Answered(pcb, list), ExecFails
    PROVE  Answered(pcb', list') /\ Settled
<1>1. Listed(pcb) /\ current \in Pids
  BY Caller DEF ExecFails
<1>2. PICK t : t = ReleaseVforkParent(pcb, current)
  OBVIOUS
<1>3. Evolves(pcb, t) /\ Quiet(pcb, t)
  BY <1>1, <1>2, ReleaseEvolves, ReleaseQuiet
<1>. QED
  BY <1>2, <1>3, EvolvesKeeps, QuietStep DEF ExecFails

\* The calls and interrupts that leave the table alone.
LEMMA SameAnswered ==
    ASSUME IInv, Answered(pcb, list), pcb' = pcb, list' = list
    PROVE  Answered(pcb', list') /\ Settled
BY SameKeeps, QuietStep

LEMMA SendAnswered ==
    ASSUME IInv, Answered(pcb, list), NEW q \in list, NEW sig \in Signals,
           pcb' = SignalSend(pcb, q, sig), list' = list
    PROVE  /\ Answered(pcb', list')
           /\ (sig = "STOP" => pcb[q].state # "ZOMBIE") => Settled
<1>0. Listed(pcb)
  BY StaticListed DEF IInv
<1>1. CASE sig # "STOP"
  BY <1>0, <1>1, SignalSendEvolves, SendQuiet, EvolvesKeeps, QuietStep
<1>2. CASE sig = "STOP"
  <2>1. pcb' = Stop(pcb, q)
    BY <1>2 DEF SignalSend
  <2>2. Answered(pcb', list')
    BY <1>0, <2>1, StopAnswered
  <2>3. ASSUME pcb[q].state # "ZOMBIE" PROVE Settled
    <3>1. Final(pcb, pcb') /\ Keeps(pcb, pcb')
      BY <1>0, <2>1, <2>3, StopFinal, StopEvolves, EvolvesKeeps
    <3>. QED
      BY <3>1, KeepsSettled
  <2>. QED
    BY <1>2, <2>2, <2>3
<1>. QED
  BY <1>1, <1>2

LEMMA KillAnswered ==
    ASSUME IInv, Answered(pcb, list), NEW q \in Pids, NEW sig \in Signals, Kill(q, sig)
    PROVE  /\ Answered(pcb', list')
           /\ "stopzombie" \notin Calls => Settled
<1>1. q \in list /\ list' = list
  BY DEF Kill
<1>2. CASE sig = "KILL"
  BY <1>1, <1>2, SameAnswered DEF Kill
<1>3. CASE sig # "KILL"
  <2>1. pcb' = SignalSend(pcb, q, sig)
    BY <1>3 DEF Kill
  <2>2. "stopzombie" \notin Calls => (sig = "STOP" => pcb[q].state # "ZOMBIE")
    BY DEF Kill, InCall, CallFor
  <2>. QED
    BY <1>1, <2>1, <2>2, SendAnswered
<1>. QED
  BY <1>2, <1>3

LEMMA PgrpSendAnswered ==
    ASSUME IInv, Answered(pcb, list), PgrpSend
    PROVE  /\ Answered(pcb', list')
           /\ StopsLiving => Settled
<1>1. /\ arg \in list /\ kpc = "pgrp" /\ list' = list
      /\ pgsig.sig \in Signals \cup {"none"}
  BY DEF PgrpSend, IInv, Dynamic, KernelStepsSound
<1>2. CASE pcb' = pcb
  BY <1>1, <1>2, SameAnswered
<1>3. CASE pcb' = SignalSend(pcb, arg, pgsig.sig) /\ pgsig.sig \in Signals
  <2>1. StopsLiving => (pgsig.sig = "STOP" => pcb[arg].state # "ZOMBIE")
    BY <1>1 DEF StopsLiving
  <2>. QED
    BY <1>1, <1>3, <2>1, SendAnswered
<1>4. CASE pcb' = SignalSend(pcb, arg, pgsig.sig) /\ pgsig.sig = "none"
  <2>1. SignalSend(pcb, arg, "none") = [pcb EXCEPT ![arg].pending = pcb[arg].pending \cup {}]
    BY DEF SignalSend, Pendable
  <2>2. SignalSend(pcb, arg, "none") = pcb
    BY <1>1, <2>1, StaticListed, ListedPcb DEF Listed, Table, Pcb, IInv
  <2>. QED
    BY <1>1, <1>4, <2>2, SameAnswered
<1>. QED
  BY <1>1, <1>2, <1>3, <1>4 DEF PgrpSend

-----------------------------------------------------------------------------
(* The calls that create, replace and wait for processes.                  *)

LEMMA NextPid ==
    ASSUME IInv, NEW s, Allocate(s)
    PROVE  /\ next_pid \in Pids /\ next_pid \notin list /\ next_pid \notin deferred
           /\ pcb[next_pid].state = "FREE" /\ next_pid' = next_pid + 1
           /\ \A p \in Allocated : p < next_pid
BY ConstantsAssumption, StatesFacts DEF Allocate, IInv, Static, Pids, Allocated

\* The fields of a new process.
LEMMA ChildFields ==
    ASSUME IInv, NEW p \in list, NEW d \in Dirs, NEW s \in Stacks
    PROVE  /\ ChildOf(p, d, s) \in Pcb
           /\ ChildOf(p, d, s).state = "READY"
           /\ ChildOf(p, d, s).parent = p
           /\ ChildOf(p, d, s).dir = d
           /\ ChildOf(p, d, s).thread = pcb[p].thread
           /\ ChildOf(p, d, s).vforkvm = pcb[p].vforkvm
           /\ ChildOf(p, d, s).vfork_child = 0
           /\ ChildOf(p, d, s).futex = 0
           /\ ChildOf(p, d, s).ctid = 0
           /\ ChildOf(p, d, s).stop = FALSE
<1>1. PICK c : c = ChildOf(p, d, s)
  OBVIOUS
<1>2. c \in Pcb
  BY <1>1, ChildPcb
<1>3. /\ c.state = "READY" /\ c.parent = p /\ c.dir = d
      /\ c.thread = pcb[p].thread /\ c.vforkvm = pcb[p].vforkvm
      /\ c.vfork_child = 0 /\ c.futex = 0 /\ c.ctid = 0 /\ c.stop = FALSE
  BY <1>1 DEF ChildOf, FreePcb
<1>. QED
  BY <1>1, <1>2, <1>3

LEMMA ForkAnswered ==
    ASSUME IInv, Answered(pcb, list), Fork
    PROVE  Answered(pcb', list') /\ Settled
<1>1. current \in list
  BY Caller DEF Fork
<1>2. PICK d \in Dirs, s \in Stacks :
        /\ Allocate(s) /\ pcb' = [pcb EXCEPT ![next_pid] = ChildOf(current, d, s)]
  BY DEF Fork
<1>3. PICK c : c = ChildOf(current, d, s)
  OBVIOUS
<1>5. c \in Pcb /\ c.state = "READY" /\ c.stop = FALSE
  BY ZenonT(60), <1>1, <1>3, ChildFields
<1>4. pcb' = [pcb EXCEPT ![next_pid] = c] /\ list' = list \cup {next_pid}
  BY <1>2, <1>3 DEF Fork
<1>. QED
  BY <1>2, <1>4, <1>5, NextPid, SameKeeps, BirthAnswered DEF Blocked

LEMMA CloneThreadAnswered ==
    ASSUME IInv, Answered(pcb, list), NEW faulty \in BOOLEAN, CloneThread(faulty)
    PROVE  Answered(pcb', list') /\ Settled
<1>1. current \in list /\ pcb[current].dir \in Dirs
  BY Caller DEF CloneThread
<1>2. PICK s \in Stacks :
        /\ Allocate(s)
        /\ pcb' = [pcb EXCEPT ![next_pid] =
                     [ChildOf(current, pcb[current].dir, s) EXCEPT
                         !.thread = TRUE, !.parent = pcb[current].parent,
                         !.ctid = IF faulty THEN 0 ELSE next_pid]]
  BY DEF CloneThread
<1>3. PICK c : c = ChildOf(current, pcb[current].dir, s)
  OBVIOUS
<1>8. c \in Pcb /\ c.state = "READY" /\ c.stop = FALSE
  BY <1>1, <1>3, ChildFields
<1>4. PICK i : i = IF faulty THEN 0 ELSE next_pid
  OBVIOUS
<1>5. PICK r : r = [c EXCEPT !.thread = TRUE, !.parent = pcb[current].parent, !.ctid = i]
  OBVIOUS
<1>6. r.state = "READY" /\ r.stop = FALSE
  BY <1>5, <1>8 DEF Pcb
<1>7. pcb' = [pcb EXCEPT ![next_pid] = r] /\ list' = list \cup {next_pid}
  BY <1>2, <1>3, <1>4, <1>5 DEF CloneThread
<1>. QED
  BY <1>2, <1>6, <1>7, NextPid, SameKeeps, BirthAnswered DEF Blocked

LEMMA VforkAnswered ==
    ASSUME IInv, Answered(pcb, list), Vfork
    PROVE  Answered(pcb', list') /\ Settled
<1>1. /\ current \in list /\ current \in Pids /\ pcb[current].dir \in Dirs
      /\ pcb[current] \in Pcb /\ deferred = {} /\ pcb \in Table
      /\ pcb[current].state = "RUNNING" /\ InCall("vfork") /\ pcb[current].dir # 0
  BY Caller DEF Vfork, Listed, Dirs
<1>a. PICK s \in Stacks : \E t, X, child :
        /\ child = [ChildOf(current, pcb[current].dir, s) EXCEPT
                        !.state = "RUNNING", !.vforkvm = TRUE]
        /\ t = [pcb EXCEPT ![next_pid] = child,
                           ![current].state = "WAITING",
                           ![current].vfork_child = next_pid,
                           ![current].wait_pid = 0,
                           ![current].untraced = FALSE]
        /\ X = Reapable(next_pid) /\ Allocate(s)
        /\ Reap(X, t, list \cup {next_pid}, runq \cup {next_pid})
  BY DEF Vfork
<1>2. PICK t, X, child :
        /\ child = [ChildOf(current, pcb[current].dir, s) EXCEPT
                        !.state = "RUNNING", !.vforkvm = TRUE]
        /\ t = [pcb EXCEPT ![next_pid] = child,
                           ![current].state = "WAITING",
                           ![current].vfork_child = next_pid,
                           ![current].wait_pid = 0,
                           ![current].untraced = FALSE]
        /\ X = Reapable(next_pid) /\ Allocate(s)
        /\ Reap(X, t, list \cup {next_pid}, runq \cup {next_pid})
  BY <1>a
<1>3. next_pid \in Pids /\ next_pid # current
  BY <1>1, <1>2, NextPid
<1>4. PICK c : c = ChildOf(current, pcb[current].dir, s)
  OBVIOUS
<1>5. c \in Pcb /\ c.state = "READY" /\ c.stop = FALSE
  BY ZenonT(60), <1>1, <1>4, ChildFields
<1>6. child.state = "RUNNING" /\ child.stop = FALSE
  BY <1>2, <1>4, <1>5 DEF Pcb
<1>7. PICK pr : pr = [pcb[current] EXCEPT !.state = "WAITING", !.vfork_child = next_pid,
                                          !.wait_pid = 0, !.untraced = FALSE]
  OBVIOUS
<1>8. /\ pr \in Pcb /\ pr.state \in LiveStates /\ pr.dir # 0
      /\ pr.stack = pcb[current].stack /\ QuietPcb(pcb[current], pr)
  <2>1. PICK st \in States, z \in PidOrNone, m \in Pcb :
          st = "WAITING" /\ z = 0 /\ m = pcb[current]
    BY <1>1, StatesFacts, NoPid
  <2>2. PICK n \in PidOrNone : n = next_pid /\ n # 0
    BY <1>3, NoPid DEF Pids
  <2>3. pr = [m EXCEPT !.state = st, !.vfork_child = n, !.wait_pid = z, !.untraced = FALSE]
    BY <1>7, <2>1, <2>2
  <2>4. pr \in Pcb /\ pr.state = st /\ pr.vfork_child = n /\ pr.dir = m.dir /\ pr.stack = m.stack
        /\ pr.parent = m.parent /\ pr.thread = m.thread /\ pr.stop = m.stop
    BY <2>3 DEF Pcb
  <2>. QED
    BY <1>1, <2>1, <2>2, <2>4, StatesFacts DEF QuietPcb, Blocked
<1>9. PICK t0 : t0 = [pcb EXCEPT ![current] = pr]
  OBVIOUS
<1>10. Keeps(pcb, t0) /\ Quiet(pcb, t0)
  BY <1>1, <1>8, <1>9, CallerQuiet
<1>11. t = [t0 EXCEPT ![next_pid] = child]
  <2>1. t = [pcb EXCEPT ![next_pid] = child, ![current] = pr]
    <3>1. t = [pcb EXCEPT ![next_pid] = child,
                         ![current] = [[pcb EXCEPT ![next_pid] = child][current]
                                         EXCEPT !.state = "WAITING", !.vfork_child = next_pid,
                                                !.wait_pid = 0, !.untraced = FALSE]]
      BY <1>2, <1>1, <1>3 DEF Table
    <3>2. [pcb EXCEPT ![next_pid] = child][current] = pcb[current]
      BY <1>1, <1>3 DEF Table
    <3>. QED
      BY <1>7, <3>1, <3>2
  <2>. QED
    BY <1>1, <1>3, <1>9, <2>1 DEF Table
<1>12. pcb' = t /\ list' = list \cup {next_pid}
  <2>1. X = {} /\ DOMAIN t = Pids
    BY <1>1, <1>2 DEF Reapable, Table
  <2>. QED
    BY <1>2, <1>11, <1>10, <2>1 DEF Reap, Keeps, Table
<1>. QED
  BY <1>3, <1>6, <1>10, <1>11, <1>12, BirthAnswered DEF Blocked

LEMMA ExecAnswered ==
    ASSUME IInv, Answered(pcb, list), Exec
    PROVE  Answered(pcb', list') /\ Settled
<1>1. /\ current \in list /\ current \in Pids /\ Listed(pcb) /\ deferred = {}
      /\ pcb[current].state = "RUNNING" /\ pcb \in Table
  BY Caller DEF Exec, Listed
<1>2. PICK u : u = ReleaseVforkParent(pcb, current)
  OBVIOUS
<1>3. /\ Evolves(pcb, u) /\ Listed(u) /\ Quiet(pcb, u) /\ u \in Table
      /\ u[current] \in Pcb /\ u[current].state # "ZOMBIE" /\ u[current].state \in LiveStates
  <2>1. Evolves(pcb, u) /\ Listed(u) /\ Quiet(pcb, u)
    BY <1>1, <1>2, ReleaseEvolves, ReleaseQuiet, EvolvesListed
  <2>. QED
    BY <1>1, <2>1, ListedPcb DEF Quiet, QuietPcb, Listed
<1>4. PICK d, t :
        /\ d \in Dirs
        /\ t = [u EXCEPT ![current].state = "READY", ![current].dir = d,
                         ![current].vforkvm = FALSE, ![current].pending = {}]
        /\ Reap(Reapable(current), t, list, runq)
  BY <1>2 DEF Exec
<1>5. PICK r : r = [u[current] EXCEPT !.state = "READY", !.dir = d,
                                      !.vforkvm = FALSE, !.pending = {}]
  OBVIOUS
<1>6. /\ r \in Pcb /\ r.stack = u[current].stack /\ r.dir # 0 /\ r.state = "READY"
      /\ QuietPcb(u[current], r)
  <2>1. PICK st \in States, m \in Pcb, e \in 0 .. NDirs :
            st = "READY" /\ m = u[current] /\ e = d /\ e # 0
    BY <1>3, <1>4, StatesFacts, ConstantsAssumption DEF Dirs
  <2>2. r = [m EXCEPT !.state = st, !.dir = e, !.vforkvm = FALSE, !.pending = {}]
    BY <1>5, <2>1
  <2>3. /\ r \in Pcb /\ r.state = st /\ r.dir = e /\ r.stack = m.stack
        /\ r.parent = m.parent /\ r.thread = m.thread /\ r.stop = m.stop
    BY <2>2 DEF Pcb
  <2>. QED
    BY <1>3, <2>1, <2>3 DEF QuietPcb, Blocked
<1>7. t = [u EXCEPT ![current] = r]
  BY <1>4, <1>5
<1>8. Evolves(u, t) /\ Quiet(u, t)
  <2>1. Evolves(u, [u EXCEPT ![current] = r])
    BY <1>1, <1>3, <1>6, SetEvolves, StatesFacts
  <2>2. Quiet(u, [u EXCEPT ![current] = r])
    BY <1>1, <1>3, <1>6, QuietSet
  <2>. QED
    BY <1>7, <2>1, <2>2
<1>9. Evolves(pcb, t) /\ Quiet(pcb, t) /\ t \in Table
  BY <1>1, <1>3, <1>8, EvolvesTransitive, QuietTransitive DEF Evolves
<1>10. pcb' = t /\ list' = list
  BY <1>1, <1>4, <1>9, ReapNobody
<1>. QED
  BY <1>9, <1>10, EvolvesKeeps, QuietStep

\* The caller reaps a zombie child of its own; nobody else waited for it.
LEMMA WaitReportsAnswered ==
    ASSUME IInv, Answered(pcb, list), NEW w \in PidOrNone, NEW untraced \in BOOLEAN,
           WaitReports(w, untraced)
    PROVE  Answered(pcb', list') /\ Settled
<1>1. /\ current \in list /\ current \in Pids /\ Listed(pcb) /\ deferred = {}
      /\ pcb[current].state = "RUNNING" /\ pcb \in Table /\ list \subseteq Pids
  BY Caller DEF WaitReports, Listed
<1>2. PICK c \in list : \E t, X :
        /\ IsFirst(c, Reports(w, untraced))
        /\ X = IF pcb[c].state = "ZOMBIE" THEN {c} ELSE {}
        /\ t = IF pcb[c].state = "ZOMBIE" THEN AnswerWait(pcb, current)
               ELSE [pcb EXCEPT ![c].stop = FALSE]
        /\ Reap(Reapable(current) \cup X, t, list, runq)
  BY DEF WaitReports
<1>3. PICK t, X :
        /\ IsFirst(c, Reports(w, untraced))
        /\ X = IF pcb[c].state = "ZOMBIE" THEN {c} ELSE {}
        /\ t = IF pcb[c].state = "ZOMBIE" THEN AnswerWait(pcb, current)
               ELSE [pcb EXCEPT ![c].stop = FALSE]
        /\ Reap(Reapable(current) \cup X, t, list, runq)
  BY <1>2
<1>4. Evolves(pcb, t) /\ Quiet(pcb, t)
  BY <1>1, <1>3, AnswerEvolves, ClearStopEvolves, AnswerQuiet, ClearStopQuiet
<1>5. pcb[c].parent = current
  BY <1>3 DEF IsFirst, Reports, WaitFor
<1>6. Reapable(current) \cup X = X /\ X \in SUBSET Allocated /\ X \subseteq {c}
  BY <1>1, <1>3 DEF Reapable, Allocated
<1>7. ASSUME NEW x \in X, NEW p \in list, Blocked(t[p]) PROVE ~Asks(t, p, x)
  <2>1. Blocked(pcb[p])
    BY <1>1, <1>4, <1>7 DEF Quiet, QuietPcb
  <2>2. p # current
    BY <1>1, <2>1 DEF Blocked
  <2>3. t[x].parent = current
    BY <1>1, <1>4, <1>5, <1>6 DEF Quiet, QuietPcb
  <2>. QED
    BY <2>2, <2>3 DEF Asks
<1>8. pcb' = [p \in Pids |-> IF p \in X THEN FreePcb ELSE t[p]] /\ list' = list \ X
  BY <1>3, <1>6 DEF Reap
<1>9. Keeps(pcb, t)
  BY <1>4, EvolvesKeeps
<1>. QED
  BY <1>4, <1>6, <1>7, <1>8, <1>9, ReapAnswered

\* A process blocks only when it has a child to wait for and no child has news.
LEMMA WaitFindsNothingAnswered ==
    ASSUME IInv, Answered(pcb, list), NEW w \in PidOrNone, NEW untraced \in BOOLEAN,
           NEW blocks \in BOOLEAN, WaitFindsNothing(w, untraced, blocks)
    PROVE  Answered(pcb', list') /\ Settled
<1>1. /\ current \in list /\ current \in Pids /\ Listed(pcb) /\ deferred = {}
      /\ pcb[current].state = "RUNNING" /\ pcb \in Table /\ list \subseteq Pids
      /\ pcb[current] \in Pcb
  BY Caller DEF WaitFindsNothing, Listed
<1>2. PICK t :
        /\ t = IF blocks THEN [pcb EXCEPT ![current].state = "WAITING",
                                         ![current].wait_pid = w,
                                         ![current].untraced = untraced]
               ELSE pcb
        /\ Reap(Reapable(current), t, list, runq)
  BY DEF WaitFindsNothing
<1>3. CASE ~blocks
  <2>1. pcb' = pcb /\ list' = list
    BY <1>1, <1>2, <1>3, ReapNobody
  <2>. QED
    BY <2>1, SameAnswered
<1>4. CASE blocks
  <2>1. PICK r : r = [pcb[current] EXCEPT !.state = "WAITING", !.wait_pid = w,
                                          !.untraced = untraced]
    OBVIOUS
  <2>2. /\ r \in Pcb /\ r.state = "WAITING" /\ r.wait_pid = w /\ r.untraced = untraced
        /\ r.parent = pcb[current].parent /\ r.thread = pcb[current].thread
        /\ r.stack = pcb[current].stack /\ r.dir = pcb[current].dir
        /\ r.stop = pcb[current].stop
    <3>1. PICK st \in States, m \in Pcb : st = "WAITING" /\ m = pcb[current]
      BY <1>1, StatesFacts
    <3>2. r = [m EXCEPT !.state = st, !.wait_pid = w, !.untraced = untraced]
      BY <2>1, <3>1
    <3>. QED
      BY <3>1, <3>2 DEF Pcb
  <2>3. t = [pcb EXCEPT ![current] = r]
    BY <1>2, <1>4, <2>1
  <2>4. t \in Table /\ t[current] = r /\ \A p \in Pids \ {current} : t[p] = pcb[p]
    BY <1>1, <2>2, <2>3 DEF Table
  <2>5. pcb' = t /\ list' = list
    BY <1>1, <1>2, <2>4, ReapNobody
  <2>6. \A p \in Pids : t[p].parent = pcb[p].parent /\ t[p].thread = pcb[p].thread
                        /\ t[p].stop = pcb[p].stop
                        /\ (t[p].state = "ZOMBIE" <=> pcb[p].state = "ZOMBIE")
    BY <1>1, <2>2, <2>4
  <2>7. ASSUME NEW p \in list, Blocked(t[p])
        PROVE  /\ \E c \in list : Asks(t, p, c)
               /\ \A c \in list : Asks(t, p, c) =>
                      t[c].state # "ZOMBIE" /\ (t[p].untraced => t[c].stop = FALSE)
    <3>1. CASE p = current
      <4>1. \A c \in list : Asks(t, p, c) <=> c \in WaitFor(w)
        <5>1. \A c \in list : pcb[c].thread \in BOOLEAN
          BY <1>1 DEF Table, Pcb
        <5>. QED
          BY <1>1, <2>2, <2>4, <2>6, <3>1, <5>1 DEF Asks, WaitFor
      <4>2. WaitFor(w) # {} /\ Reports(w, untraced) = {}
        BY <1>4 DEF WaitFindsNothing
      <4>3. WaitFor(w) \subseteq list
        BY DEF WaitFor
      <4>4. \A c \in WaitFor(w) : pcb[c].state # "ZOMBIE" /\ (untraced => ~pcb[c].stop)
        BY <4>2 DEF Reports
      <4>5. \A c \in list : pcb[c].stop \in BOOLEAN
        BY <1>1 DEF Table, Pcb
      <4>. QED
        BY <1>1, <2>2, <2>4, <2>6, <3>1, <4>1, <4>2, <4>3, <4>4, <4>5
    <3>2. CASE p # current
      <4>1. t[p] = pcb[p] /\ Blocked(pcb[p])
        BY <1>1, <2>4, <2>7, <3>2
      <4>2. \A c \in list : Asks(t, p, c) <=> Asks(pcb, p, c)
        BY <1>1, <2>6, <4>1 DEF Asks
      <4>. QED
        BY <1>1, <2>6, <4>1, <4>2 DEF Answered
    <3>. QED
      BY <3>1, <3>2
  <2>8. Answered(pcb', list')
    BY <2>5, <2>7 DEF Answered
  <2>9. Final(pcb, t)
    BY <2>6 DEF Final
  <2>10. Keeps(pcb, t)
    BY <1>1, <2>2, <2>4, StatesFacts DEF Keeps
  <2>. QED
    BY <2>5, <2>8, <2>9, <2>10, KeepsSettled
<1>. QED
  BY <1>3, <1>4

-----------------------------------------------------------------------------
(* Together.                                                               *)

LEMMA InitAnswered == Init => Answered(pcb, list)
<1>. SUFFICES ASSUME Init PROVE Answered(pcb, list)
  OBVIOUS
<1>1. list = {1} /\ pcb[1].state = "RUNNING"
  BY ConstantsAssumption DEF Init, FreePcb, Pids
<1>. QED
  BY <1>1 DEF Answered, Blocked

LEMMA NextAnswered ==
    ASSUME IInv, Answered(pcb, list), Next
    PROVE  /\ Answered(pcb', list')
           /\ "stopzombie" \notin Calls /\ StopsLiving => Settled
<1>1. CASE Syscall
  <2>1. CASE ForkFails \/ Exit \/ FatalFault
    BY <2>1, SameAnswered DEF ForkFails, Exit, FatalFault
  <2>2. CASE Fork \/ Vfork \/ Exec \/ ExecFails \/ Sleep
             \/ \E faulty \in BOOLEAN : CloneThread(faulty)
    BY <2>2, ForkAnswered, VforkAnswered, ExecAnswered, ExecFailsAnswered, SleepAnswered,
       CloneThreadAnswered
  <2>3. CASE \E w \in PidOrNone, untraced \in BOOLEAN :
                \/ WaitReports(w, untraced)
                \/ \E blocks \in BOOLEAN : WaitFindsNothing(w, untraced, blocks)
    BY <2>3, WaitReportsAnswered, WaitFindsNothingAnswered
  <2>4. CASE \/ \E a \in Pids : FutexWait(a) \/ \E all \in BOOLEAN : FutexWake(a, all)
             \/ \E q \in Pids, g \in Groups : Setpgid(q, g)
    BY <2>4, FutexWaitAnswered, FutexWakeAnswered, SetpgidAnswered, GroupsArePids
  <2>5. CASE \E q \in Pids, sig \in Signals : Kill(q, sig)
    BY <2>5, KillAnswered
  <2>. QED
    BY <1>1, <2>1, <2>2, <2>3, <2>4, <2>5 DEF Syscall
<1>2. CASE Interrupt
  <2>1. CASE \E woken \in SUBSET Pids : Timer(woken)
    BY <2>1, TimerAnswered
  <2>2. CASE \E g \in Groups, sig \in Signals : KillPgrp(g, sig)
    BY <2>2, SameAnswered DEF KillPgrp
  <2>. QED
    BY <1>2, <2>1, <2>2 DEF Interrupt
<1>3. CASE KernelStep
  <2>1. CASE PgrpNext \/ \E p \in Pids : PickNext(p)
    BY <2>1, SameAnswered DEF PgrpNext, PickNext
  <2>2. CASE MarkExited \/ HandleTrap \/ PickIdle \/ DispatchSignal \/ Run
    BY <2>2, MarkExitedAnswered, HandleTrapAnswered, PickIdleAnswered, DispatchSignalAnswered,
       RunAnswered
  <2>3. CASE PgrpSend
    BY <2>3, PgrpSendAnswered
  <2>. QED
    BY <1>3, <2>1, <2>2, <2>3 DEF KernelStep
<1>. QED
  BY <1>1, <1>2, <1>3 DEF Next

LEMMA AnsweredInvariance == Spec => [](IInv /\ Answered(pcb, list))
<1>1. IInv /\ Answered(pcb, list) /\ [Next]_vars => Answered(pcb, list)'
  <2>1. ASSUME IInv, Answered(pcb, list), UNCHANGED vars PROVE Answered(pcb, list)'
    BY <2>1 DEF vars
  <2>. QED
    BY <2>1, NextAnswered
<1>. QED
  BY <1>1, InitAnswered, Invariance, PTL DEF Spec

\* No exit and no stop is lost and nobody waits for nothing, whatever the
\* programs do (process_mark_exited, process_notify_stopped_parent).
THEOREM WaitsAnswered == Spec => [](NoLostExit /\ NoLostStop /\ WaiterHasChild)
BY AnsweredInvariance, AnsweredStrong, PTL

\* What a parent learns of its children is neither lost nor taken back, as
\* long as no program sends a stop signal to a zombie (signal_send_pid, which
\* would revive it).
THEOREM DeathsReported == ASSUME "stopzombie" \notin Calls PROVE Spec => DeathReported
<1>1. Init => StopsLiving
  BY DEF Init, StopsLiving
<1>2. IInv /\ StopsLiving /\ [Next]_vars => StopsLiving'
  BY StopsLivingStep
<1>3. IInv /\ Answered(pcb, list) /\ StopsLiving /\ [Next]_vars
        => [\A p \in Pids :
              /\ pcb[p].state = "ZOMBIE" => pcb'[p].state \in {"ZOMBIE", "FREE"}
              /\ pcb[p].state = "DEAD" => pcb'[p].state \in {"DEAD", "FREE"}]_vars
  BY NextAnswered DEF Settled
<1>4. Spec => DeathIsFinal
  BY <1>1, <1>2, <1>3, AnsweredInvariance, PTL DEF Spec, DeathIsFinal
<1>. QED
  BY <1>4, WaitsAnswered, PTL DEF DeathReported

-----------------------------------------------------------------------------
(* Page directories and kinship.  No kernel routine but exec, fork and the *)
(* freeing of a process changes who shares an address space with whom.     *)

KinPcb(a, b) ==
    /\ b.dir = a.dir /\ b.parent = a.parent
    /\ b.thread = a.thread /\ b.vforkvm = a.vforkvm

Kin(t, u) == \A p \in Pids : KinPcb(t[p], u[p])

LEMMA KinPcbSame == ASSUME NEW a PROVE KinPcb(a, a)
BY DEF KinPcb

LEMMA KinSame == ASSUME NEW t PROVE Kin(t, t)
BY KinPcbSame DEF Kin

LEMMA KinTransitive ==
    ASSUME NEW t, NEW u, NEW v, Kin(t, u), Kin(u, v) PROVE Kin(t, v)
BY DEF Kin, KinPcb

LEMMA KinSet ==
    ASSUME NEW t \in Table, NEW p \in Pids, NEW r, KinPcb(t[p], r)
    PROVE  Kin(t, [t EXCEPT ![p] = r])
<1>1. ASSUME NEW q \in Pids PROVE KinPcb(t[q], [t EXCEPT ![p] = r][q])
  BY KinPcbSame DEF Table
<1>. QED
  BY <1>1 DEF Kin

LEMMA SetStateKin ==
    ASSUME NEW t \in Table, NEW p \in Pids, NEW s
    PROVE  Kin(t, [t EXCEPT ![p].state = s])
<1>1. PICK r : r = [t[p] EXCEPT !.state = s]
  OBVIOUS
<1>2. KinPcb(t[p], r)
  BY <1>1 DEF KinPcb, Table, Pcb
<1>3. [t EXCEPT ![p].state = s] = [t EXCEPT ![p] = r]
  BY <1>1
<1>. QED
  BY <1>2, <1>3, KinSet

LEMMA ReleaseKin ==
    ASSUME NEW t \in Table, NEW v, list \subseteq Pids
    PROVE  Kin(t, ReleaseVforkParent(t, v))
<1>1. CASE ~(t[v].vforkvm /\ t[v].parent \in list /\ t[t[v].parent].vfork_child = v)
  BY <1>1, KinSame DEF ReleaseVforkParent
<1>2. CASE t[v].vforkvm /\ t[v].parent \in list /\ t[t[v].parent].vfork_child = v
  <2>1. PICK pa \in Pids : pa = t[v].parent
    BY <1>2
  <2>2. PICK s : s = IF t[pa].state = "WAITING" THEN "READY" ELSE t[pa].state
    OBVIOUS
  <2>3. PICK r : r = [t[pa] EXCEPT !.vfork_child = 0, !.state = s]
    OBVIOUS
  <2>4. ReleaseVforkParent(t, v) = [t EXCEPT ![pa] = r]
    BY <1>2, <2>1, <2>2, <2>3 DEF ReleaseVforkParent, Table, Pcb
  <2>5. KinPcb(t[pa], r)
    BY <2>3 DEF KinPcb, Table, Pcb
  <2>. QED
    BY ZenonT(60), <2>4, <2>5, KinSet
<1>. QED
  BY <1>1, <1>2

LEMMA AnswerKin ==
    ASSUME NEW t \in Table, NEW pa \in Pids
    PROVE  Kin(t, AnswerWait(t, pa))
<1>1. PICK r : r = [t[pa] EXCEPT !.state = "READY", !.wait_pid = 0, !.untraced = FALSE]
  OBVIOUS
<1>2. AnswerWait(t, pa) = [t EXCEPT ![pa] = r]
  BY <1>1 DEF AnswerWait, Table, Pcb
<1>3. KinPcb(t[pa], r)
  BY <1>1 DEF KinPcb, Table, Pcb
<1>. QED
  BY ZenonT(60), <1>2, <1>3, KinSet

LEMMA ClearStopKin ==
    ASSUME NEW t \in Table, NEW c \in Pids
    PROVE  Kin(t, [t EXCEPT ![c].stop = FALSE])
<1>1. PICK r : r = [t[c] EXCEPT !.stop = FALSE]
  OBVIOUS
<1>2. KinPcb(t[c], r)
  BY <1>1 DEF KinPcb, Table, Pcb
<1>3. [t EXCEPT ![c].stop = FALSE] = [t EXCEPT ![c] = r]
  BY <1>1
<1>. QED
  BY <1>2, <1>3, KinSet

LEMMA StopKin ==
    ASSUME NEW t, Listed(t), NEW c \in list
    PROVE  Kin(t, Stop(t, c))
<1>0. t \in Table /\ c \in Pids /\ t[c] \in Pcb
  BY ListedPcb DEF Listed
<1>1. CASE t[c].state = "STOPPED"
  BY <1>1, KinSame DEF Stop
<1>2. CASE t[c].state # "STOPPED"
  <2>1. PICK r : r = [t[c] EXCEPT !.state = "STOPPED", !.stop = TRUE]
    OBVIOUS
  <2>2. r \in Pcb /\ KinPcb(t[c], r) /\ r.state = "STOPPED"
    <3>1. PICK x \in States, m \in Pcb : x = "STOPPED" /\ m = t[c]
      BY <1>0, StatesFacts
    <3>2. r = [m EXCEPT !.state = x, !.stop = TRUE]
      BY <2>1, <3>1
    <3>. QED
      BY <3>1, <3>2 DEF Pcb, KinPcb
  <2>3. PICK u : u = [t EXCEPT ![c] = r]
    OBVIOUS
  <2>4. u \in Table /\ Kin(t, u) /\ Listed(u)
    <3>1. u \in Table /\ u[c] = r /\ \A p \in Pids \ {c} : u[p] = t[p]
      BY <1>0, <2>2, <2>3 DEF Table
    <3>2. Listed(u)
      BY <1>0, <2>2, <3>1, StatesFacts DEF Listed
    <3>. QED
      BY <1>0, <2>2, <2>3, <3>1, <3>2, KinSet
  <2>5. Stop(t, c) = NotifyStoppedParent(u, c)
    <3>1. u = [t EXCEPT ![c].state = "STOPPED", ![c].stop = TRUE]
      BY <2>1, <2>3, <1>0 DEF Table, Pcb
    <3>. QED
      BY <1>2, <3>1 DEF Stop
  <2>6. CASE Stop(t, c) = u
    BY <2>4, <2>6
  <2>7. ASSUME u[c].parent \in list,
               Stop(t, c) = [AnswerWait(u, u[c].parent) EXCEPT ![c].stop = FALSE]
        PROVE  Kin(t, Stop(t, c))
    <3>1. PICK pa \in list : pa = u[c].parent
      BY <2>7
    <3>2. PICK v : v = AnswerWait(u, pa)
      OBVIOUS
    <3>3. Kin(u, v) /\ v \in Table
      BY <2>4, <3>1, <3>2, AnswerKin, AnswerEvolves DEF Listed, Evolves
    <3>4. PICK w : w = [v EXCEPT ![c].stop = FALSE]
      OBVIOUS
    <3>5. Kin(v, w)
      BY <1>0, <3>3, <3>4, ClearStopKin
    <3>6. Kin(t, w)
      BY <2>4, <3>3, <3>5, KinTransitive
    <3>. QED
      BY <2>7, <3>1, <3>2, <3>4, <3>6
  <2>. QED
    BY <2>5, <2>6, <2>7 DEF NotifyStoppedParent
<1>. QED
  BY <1>1, <1>2

LEMMA WakeFutexKin ==
    ASSUME NEW t \in Table, NEW a, NEW d, NEW all
    PROVE  Kin(t, WakeFutex(t, a, d, all))
<1>1. PICK ws : ws = IF a = 0 THEN {} ELSE FutexWaiters(t, a, d)
  OBVIOUS
<1> DEFINE W == {q \in ws : all \/ IsFirst(q, ws)}
<1>2. WakeFutex(t, a, d, all)
        = [q \in Pids |-> IF q \in W THEN [t[q] EXCEPT !.state = "READY", !.futex = 0]
                          ELSE t[q]]
  BY <1>1, Zenon DEF WakeFutex
<1>. HIDE DEF W
<1>3. ASSUME NEW q \in Pids PROVE KinPcb(t[q], WakeFutex(t, a, d, all)[q])
  <2>1. CASE q \notin W
    BY <1>2, <2>1, KinPcbSame
  <2>2. CASE q \in W
    <3>1. PICK r : r = [t[q] EXCEPT !.state = "READY", !.futex = 0]
      OBVIOUS
    <3>2. KinPcb(t[q], r)
      BY <3>1 DEF KinPcb, Table, Pcb
    <3>. QED
      BY <1>2, <2>2, <3>1, <3>2
  <2>. QED
    BY <2>1, <2>2
<1>. QED
  BY <1>3 DEF Kin

LEMMA SendKin ==
    ASSUME NEW t, Listed(t), NEW q \in list, NEW sig
    PROVE  Kin(t, SignalSend(t, q, sig))
<1>0. t \in Table /\ q \in Pids /\ t[q] \in Pcb
  BY ListedPcb DEF Listed
<1>1. CASE sig = "STOP"
  BY <1>1, StopKin DEF SignalSend
<1>2. CASE sig = "CONT"
  BY <1>0, <1>2, SetStateKin, KinSame DEF SignalSend
<1>3. CASE sig \notin {"STOP", "CONT"}
  <2>1. PICK P : P = t[q].pending \cup ({sig} \cap Pendable)
    OBVIOUS
  <2>2. PICK r : r = [t[q] EXCEPT !.pending = P]
    OBVIOUS
  <2>3. KinPcb(t[q], r)
    BY <1>0, <2>2 DEF KinPcb, Pcb
  <2>4. SignalSend(t, q, sig) = [t EXCEPT ![q] = r]
    BY <1>3, <2>1, <2>2 DEF SignalSend
  <2>. QED
    BY ZenonT(60), <1>0, <2>3, <2>4, KinSet
<1>. QED
  BY <1>1, <1>2, <1>3

LEMMA AfterDeathKin ==
    ASSUME IInv, NEW v \in list
    PROVE  Kin(pcb, AfterDeath(v))
<1>0. pcb \in Table /\ v \in Pids /\ list \subseteq Pids /\ pcb[v] \in Pcb /\ Listed(pcb)
  BY StaticListed, ListedPcb DEF IInv, Static
<1>1. PICK r : r = [pcb[v] EXCEPT !.state = "ZOMBIE", !.pending = {}, !.ctid = 0]
  OBVIOUS
<1>2. /\ r \in Pcb /\ KinPcb(pcb[v], r) /\ r.state = "ZOMBIE"
  <2>1. PICK x \in States, z \in PidOrNone, m \in Pcb : x = "ZOMBIE" /\ z = 0 /\ m = pcb[v]
    BY <1>0, StatesFacts, NoPid
  <2>2. r = [m EXCEPT !.state = x, !.pending = {}, !.ctid = z]
    BY <1>1, <2>1
  <2>. QED
    BY <2>1, <2>2 DEF Pcb, KinPcb
<1>3. PICK u : u = [pcb EXCEPT ![v] = r]
  OBVIOUS
<1>4. u \in Table /\ Kin(pcb, u) /\ Listed(u)
  <2>1. u \in Table /\ u[v] = r /\ \A p \in Pids \ {v} : u[p] = pcb[p]
    BY <1>0, <1>2, <1>3 DEF Table
  <2>2. Listed(u)
    BY <1>0, <1>2, <2>1, StatesFacts DEF Listed
  <2>. QED
    BY <1>0, <1>2, <1>3, <2>1, <2>2, KinSet
<1>5. PICK w : w = WakeFutex(u, pcb[v].ctid, pcb[v].dir, FALSE)
  OBVIOUS
<1>6. Kin(u, w) /\ w \in Table
  BY <1>4, <1>5, WakeFutexKin, WakeFutexEvolves DEF Evolves
<1>7. PICK x : x = ReleaseVforkParent(w, v)
  OBVIOUS
<1>8. Kin(w, x)
  BY <1>0, <1>6, <1>7, ReleaseKin
<1>9. AfterDeath(v) = x
  BY <1>1, <1>3, <1>5, <1>7 DEF AfterDeath
<1>. QED
  BY <1>4, <1>6, <1>8, <1>9, KinTransitive

-----------------------------------------------------------------------------
(* The steps that change who uses which address space, field by field.     *)

\* sys_fork.
LEMMA ForkShape ==
    ASSUME IInv, Fork
    PROVE  /\ current \in list /\ current \in Pids /\ next_pid \in Pids
           /\ next_pid \notin Allocated /\ next_pid' = next_pid + 1
           /\ list' = list \cup {next_pid} /\ runq' = runq \cup {next_pid}
           /\ deferred' = deferred /\ cr3' = cr3
           /\ dirs' = dirs \cup {pcb'[next_pid].dir}
           /\ \A p \in Pids \ {next_pid} : pcb'[p] = pcb[p]
           /\ pcb'[next_pid].dir \notin dirs
           /\ pcb'[next_pid].state = "READY"
           /\ pcb'[next_pid].parent = current
           /\ pcb'[next_pid].thread = pcb[current].thread
           /\ pcb'[next_pid].vforkvm = pcb[current].vforkvm
           /\ pcb'[next_pid].vfork_child = 0
           /\ pcb'[next_pid].futex = 0
           /\ pcb'[next_pid].ctid = 0
<1>1. current \in list /\ current \in Pids /\ pcb \in Table
  BY Caller DEF Fork, Listed
<1>2. PICK d \in Dirs, s \in Stacks :
        /\ Allocate(s) /\ FreshDir(d)
        /\ pcb' = [pcb EXCEPT ![next_pid] = ChildOf(current, d, s)]
        /\ dirs' = dirs \cup {d}
  BY DEF Fork
<1>3. PICK c : c = ChildOf(current, d, s)
  OBVIOUS
<1>4. /\ c.dir = d /\ c.state = "READY" /\ c.parent = current
      /\ c.vfork_child = 0 /\ c.futex = 0 /\ c.ctid = 0
  BY ZenonT(60), <1>1, <1>3, ChildFields
<1>8. c.thread = pcb[current].thread /\ c.vforkvm = pcb[current].vforkvm
  BY ZenonT(60), <1>1, <1>3, ChildFields
<1>5. next_pid \in Pids /\ next_pid \notin Allocated /\ next_pid' = next_pid + 1
  BY <1>2, NextPid DEF Allocated
<1>6. pcb'[next_pid] = c /\ \A p \in Pids \ {next_pid} : pcb'[p] = pcb[p]
  BY <1>1, <1>2, <1>3, <1>5 DEF Table
<1>7. /\ list' = list \cup {next_pid} /\ runq' = runq \cup {next_pid}
      /\ deferred' = deferred /\ cr3' = cr3
  BY DEF Fork
<1>. QED
  BY <1>1, <1>2, <1>4, <1>5, <1>6, <1>7, <1>8 DEF FreshDir

\* sys_clone of a thread.
LEMMA CloneShape ==
    ASSUME IInv, NEW faulty \in BOOLEAN, CloneThread(faulty)
    PROVE  /\ current \in list /\ current \in Pids /\ next_pid \in Pids
           /\ next_pid \notin Allocated /\ next_pid' = next_pid + 1
           /\ list' = list \cup {next_pid} /\ deferred' = deferred
           /\ dirs' = dirs /\ cr3' = cr3
           /\ \A p \in Pids \ {next_pid} : pcb'[p] = pcb[p]
           /\ pcb'[next_pid].dir = pcb[current].dir
           /\ pcb'[next_pid].vforkvm = pcb[current].vforkvm
<1>1. current \in list /\ current \in Pids /\ pcb \in Table /\ pcb[current].dir \in Dirs
  BY Caller DEF CloneThread, Listed
<1>2. PICK s \in Stacks :
        /\ Allocate(s)
        /\ pcb' = [pcb EXCEPT ![next_pid] =
                     [ChildOf(current, pcb[current].dir, s) EXCEPT
                         !.thread = TRUE, !.parent = pcb[current].parent,
                         !.ctid = IF faulty THEN 0 ELSE next_pid]]
  BY DEF CloneThread
<1>3. PICK c : c = ChildOf(current, pcb[current].dir, s)
  OBVIOUS
<1>4. c \in Pcb /\ c.dir = pcb[current].dir /\ c.vforkvm = pcb[current].vforkvm
  BY ZenonT(60), <1>1, <1>3, ChildFields
<1>5. PICK i : i = IF faulty THEN 0 ELSE next_pid
  OBVIOUS
<1>6. PICK r : r = [c EXCEPT !.thread = TRUE, !.parent = pcb[current].parent, !.ctid = i]
  OBVIOUS
<1>7. r.dir = c.dir /\ r.vforkvm = c.vforkvm
  BY <1>4, <1>6 DEF Pcb
<1>8. next_pid \in Pids /\ next_pid \notin Allocated /\ next_pid' = next_pid + 1
  BY <1>2, NextPid DEF Allocated
<1>9. pcb' = [pcb EXCEPT ![next_pid] = r]
  BY <1>2, <1>3, <1>5, <1>6
<1>10. pcb'[next_pid] = r /\ \A p \in Pids \ {next_pid} : pcb'[p] = pcb[p]
  BY <1>1, <1>8, <1>9 DEF Table
<1>11. /\ list' = list \cup {next_pid} /\ deferred' = deferred
       /\ dirs' = dirs /\ cr3' = cr3
  BY DEF CloneThread
<1>. QED
  BY <1>1, <1>4, <1>7, <1>8, <1>10, <1>11

\* sys_vfork.
LEMMA VforkShape ==
    ASSUME IInv, Vfork
    PROVE  /\ current \in list /\ current \in Pids /\ next_pid \in Pids
           /\ next_pid \notin Allocated /\ next_pid' = next_pid + 1
           /\ deferred = {} /\ deferred' = {}
           /\ list' = list \cup {next_pid} /\ runq' = runq \cup {next_pid}
           /\ dirs' = dirs /\ cr3' = pcb[current].dir
           /\ \A p \in Pids \ {next_pid, current} : pcb'[p] = pcb[p]
           /\ pcb'[next_pid].dir = pcb[current].dir
           /\ pcb'[next_pid].state = "RUNNING"
           /\ pcb'[next_pid].parent = current
           /\ pcb'[next_pid].thread = pcb[current].thread
           /\ pcb'[next_pid].vforkvm = TRUE
           /\ pcb'[next_pid].vfork_child = 0
           /\ pcb'[next_pid].futex = 0
           /\ pcb'[next_pid].ctid = 0
           /\ KinPcb(pcb[current], pcb'[current])
           /\ pcb[current].vfork_child = 0
           /\ pcb'[current].vfork_child = next_pid
           /\ pcb'[current].state = "WAITING"
           /\ pcb'[current].futex = pcb[current].futex
           /\ pcb'[current].ctid = pcb[current].ctid
<1>1. /\ current \in list /\ current \in Pids /\ pcb[current].dir \in Dirs
      /\ pcb[current] \in Pcb /\ deferred = {} /\ pcb \in Table
  BY Caller DEF Vfork, Listed
<1>2. PICK s, child, t, X :
        /\ s \in Stacks
        /\ child = [ChildOf(current, pcb[current].dir, s) EXCEPT
                        !.state = "RUNNING", !.vforkvm = TRUE]
        /\ t = [pcb EXCEPT ![next_pid] = child,
                           ![current].state = "WAITING",
                           ![current].vfork_child = next_pid,
                           ![current].wait_pid = 0,
                           ![current].untraced = FALSE]
        /\ X = Reapable(next_pid) /\ Allocate(s)
        /\ Reap(X, t, list \cup {next_pid}, runq \cup {next_pid})
        /\ dirs' = dirs \ DirsDestroyed(X, t, list \cup {next_pid})
  BY DEF Vfork
<1>3. /\ next_pid \in Pids /\ next_pid # current /\ next_pid \notin Allocated
      /\ next_pid' = next_pid + 1
  BY <1>1, <1>2, NextPid DEF Allocated
<1>4. PICK c : c = ChildOf(current, pcb[current].dir, s)
  OBVIOUS
<1>5. /\ c \in Pcb /\ c.dir = pcb[current].dir /\ c.parent = current
      /\ c.thread = pcb[current].thread /\ c.vfork_child = 0 /\ c.futex = 0 /\ c.ctid = 0
  <2>1. s \in Stacks
    BY <1>2
  <2>. QED
    BY ZenonT(60), <1>1, <1>4, <2>1, ChildFields
<1>6. /\ child.state = "RUNNING" /\ child.vforkvm = TRUE /\ child.dir = c.dir
      /\ child.parent = c.parent /\ child.thread = c.thread
      /\ child.vfork_child = c.vfork_child /\ child.futex = c.futex /\ child.ctid = c.ctid
  BY <1>2, <1>4, <1>5 DEF Pcb
<1>7. PICK pr : pr = [pcb[current] EXCEPT !.state = "WAITING", !.vfork_child = next_pid,
                                          !.wait_pid = 0, !.untraced = FALSE]
  OBVIOUS
<1>8. /\ KinPcb(pcb[current], pr) /\ pr.state = "WAITING" /\ pr.vfork_child = next_pid
      /\ pr.futex = pcb[current].futex /\ pr.ctid = pcb[current].ctid
  BY <1>1, <1>7 DEF Pcb, KinPcb
<1>9. t = [pcb EXCEPT ![next_pid] = child, ![current] = pr]
  <2>1. t = [pcb EXCEPT ![next_pid] = child,
                       ![current] = [[pcb EXCEPT ![next_pid] = child][current]
                                       EXCEPT !.state = "WAITING", !.vfork_child = next_pid,
                                              !.wait_pid = 0, !.untraced = FALSE]]
    BY <1>2, <1>1, <1>3 DEF Table
  <2>2. [pcb EXCEPT ![next_pid] = child][current] = pcb[current]
    BY <1>1, <1>3 DEF Table
  <2>. QED
    BY <1>7, <2>1, <2>2
<1>10. /\ t[next_pid] = child /\ t[current] = pr /\ DOMAIN t = Pids
       /\ \A p \in Pids \ {next_pid, current} : t[p] = pcb[p]
  BY <1>1, <1>3, <1>9 DEF Table
<1>11. X = {} /\ DirsDestroyed(X, t, list \cup {next_pid}) = {}
  BY <1>1, <1>2 DEF Reapable, DirsDestroyed
<1>12. /\ \A p \in Pids : pcb'[p] = t[p]
       /\ list' = list \cup {next_pid} /\ runq' = runq \cup {next_pid}
       /\ deferred' = {} /\ dirs' = dirs
  BY <1>1, <1>2, <1>11 DEF Reap
<1>13. cr3' = pcb[current].dir /\ pcb[current].vfork_child = 0
  BY DEF Vfork
<1>14. pcb'[next_pid] = child /\ pcb'[current] = pr
       /\ \A p \in Pids \ {next_pid, current} : pcb'[p] = pcb[p]
  BY <1>1, <1>3, <1>10, <1>12
<1>. QED
  BY <1>1, <1>3, <1>5, <1>6, <1>8, <1>12, <1>13, <1>14

\* sys_execve that succeeds.
LEMMA ExecShape ==
    ASSUME IInv, Exec, NEW u, u = ReleaseVforkParent(pcb, current)
    PROVE  /\ current \in list /\ current \in Pids /\ deferred = {}
           /\ pcb[current].state = "RUNNING"
           /\ InCall(IF ~pcb[current].vforkvm /\ HasSharedPageDir(pcb, current, list)
                     THEN "execshared" ELSE "exec")
           /\ u \in Table /\ Kin(pcb, u)
           /\ list' = list /\ runq' = runq /\ deferred' = {} /\ next_pid' = next_pid
           /\ cr3' = pcb'[current].dir
           /\ dirs' = (dirs \cup {pcb'[current].dir})
                          \ (IF pcb[current].vforkvm THEN {} ELSE {pcb[current].dir})
           /\ \A p \in Pids \ {current} : pcb'[p] = u[p]
           /\ pcb'[current].dir \notin dirs
           /\ pcb'[current].state = "READY"
           /\ pcb'[current].parent = pcb[current].parent
           /\ pcb'[current].thread = pcb[current].thread
           /\ pcb'[current].vforkvm = FALSE
           /\ pcb'[current].vfork_child = u[current].vfork_child
           /\ pcb'[current].futex = u[current].futex
           /\ pcb'[current].ctid = u[current].ctid
<1>1. /\ current \in list /\ current \in Pids /\ Listed(pcb) /\ deferred = {} /\ pcb \in Table
      /\ pcb[current].state = "RUNNING" /\ list \subseteq Pids
      /\ InCall(IF ~pcb[current].vforkvm /\ HasSharedPageDir(pcb, current, list)
                THEN "execshared" ELSE "exec")
  BY Caller DEF Exec, Listed
<1>2. u \in Table /\ Kin(pcb, u)
  BY <1>1, ReleaseEvolves, ReleaseKin DEF Evolves
<1>3. PICK d, t, X :
        /\ d \in Dirs
        /\ FreshDir(d) /\ X = Reapable(current)
        /\ t = [u EXCEPT ![current].state = "READY", ![current].dir = d,
                         ![current].vforkvm = FALSE, ![current].pending = {}]
        /\ Reap(X, t, list, runq)
        /\ dirs' = ((dirs \cup {d}) \ DirsDestroyed(X, t, list))
                        \ (IF pcb[current].vforkvm THEN {} ELSE {pcb[current].dir})
        /\ cr3' = d
  BY DEF Exec
<1>4. PICK r : r = [u[current] EXCEPT !.state = "READY", !.dir = d,
                                      !.vforkvm = FALSE, !.pending = {}]
  OBVIOUS
<1>5. /\ r.dir = d /\ r.state = "READY" /\ r.vforkvm = FALSE
      /\ r.parent = pcb[current].parent /\ r.thread = pcb[current].thread
      /\ r.vfork_child = u[current].vfork_child /\ r.futex = u[current].futex
      /\ r.ctid = u[current].ctid
  <2>1. u[current] \in Pcb
    BY <1>1, <1>2 DEF Table
  <2>2. KinPcb(pcb[current], u[current])
    BY <1>1, <1>2 DEF Kin
  <2>3. /\ r.dir = d /\ r.state = "READY" /\ r.vforkvm = FALSE
        /\ r.parent = u[current].parent /\ r.thread = u[current].thread
        /\ r.vfork_child = u[current].vfork_child /\ r.futex = u[current].futex
        /\ r.ctid = u[current].ctid
    BY <1>4, <2>1 DEF Pcb
  <2>. QED
    BY <2>2, <2>3 DEF KinPcb
<1>6. t = [u EXCEPT ![current] = r]
  BY <1>3, <1>4
<1>7. t[current] = r /\ DOMAIN t = Pids /\ \A p \in Pids \ {current} : t[p] = u[p]
  BY <1>1, <1>2, <1>6 DEF Table
<1>8. X = {} /\ DirsDestroyed(X, t, list) = {}
  BY <1>1, <1>3 DEF Reapable, DirsDestroyed
<1>9. /\ \A p \in Pids : pcb'[p] = t[p]
      /\ list' = list /\ runq' = runq /\ deferred' = {}
      /\ dirs' = (dirs \cup {d}) \ (IF pcb[current].vforkvm THEN {} ELSE {pcb[current].dir})
  BY <1>1, <1>3, <1>8 DEF Reap
<1>10. pcb'[current] = r /\ \A p \in Pids \ {current} : pcb'[p] = u[p]
  BY <1>1, <1>7, <1>9
<1>11. d \notin dirs /\ cr3' = d /\ next_pid' = next_pid
  BY <1>3 DEF FreshDir, Exec
<1>. QED
  BY <1>1, <1>2, <1>5, <1>9, <1>10, <1>11

-----------------------------------------------------------------------------
(* Every other step but the freeing of processes leaves all that alone.    *)

SameSpaces ==
    /\ Kin(pcb, pcb') /\ Allocated' = Allocated /\ dirs' = dirs

LEMMA MarkExitedSpaces == ASSUME IInv, MarkExited PROVE SameSpaces
<1>0. arg \in list /\ arg \in Pids /\ pcb \in Table /\ list \subseteq Pids /\ Listed(pcb)
  BY StaticListed DEF MarkExited, IInv, Static, Dynamic, KernelStepsSound
<1>1. PICK t : t = AfterDeath(arg)
  OBVIOUS
<1>2. Kin(pcb, t) /\ t \in Table /\ Listed(t)
  BY <1>0, <1>1, AfterDeathKin, AfterDeathEvolves, EvolvesListed DEF Listed
<1>3. Kin(t, pcb')
  <2>1. CASE LeavesAtDeath(arg)
    <3>1. PICK u : u = IF pcb[arg].thread THEN t ELSE AnswerWait(t, pcb[arg].parent)
      OBVIOUS
    <3>2. Kin(t, u) /\ u \in Table
      <4>1. CASE pcb[arg].thread
        BY <1>2, <3>1, <4>1, KinSame
      <4>2. CASE ~pcb[arg].thread
        <5>1. pcb[arg].parent \in list /\ u = AnswerWait(t, pcb[arg].parent)
          BY <2>1, <3>1, <4>2 DEF LeavesAtDeath, AnswersWait
        <5>. QED
          BY <1>0, <1>2, <5>1, AnswerKin, AnswerEvolves DEF Evolves
      <4>. QED
        BY <4>1, <4>2
    <3>3. pcb' = [u EXCEPT ![arg].state = "DEAD"]
      BY <1>1, <2>1, <3>1 DEF MarkExited
    <3>4. Kin(u, pcb')
      BY <1>0, <3>2, <3>3, SetStateKin
    <3>. QED
      BY <3>2, <3>4, KinTransitive
  <2>2. CASE ~LeavesAtDeath(arg)
    <3>1. PICK pa : pa = pcb[arg].parent
      OBVIOUS
    <3>2. pcb' = IF pa \in list /\ t[pa].state = "WAITING" /\ t[pa].vfork_child = 0
                 THEN [t EXCEPT ![pa].state = "READY"] ELSE t
      BY <1>1, <2>2, <3>1 DEF MarkExited
    <3>3. pa \in list => Kin(t, [t EXCEPT ![pa].state = "READY"])
      BY <1>0, <1>2, SetStateKin
    <3>. QED
      BY <3>2, <3>3, KinSame
  <2>. QED
    BY <2>1, <2>2
<1>4. Allocated' = Allocated /\ dirs' = dirs
  <2>1. \/ list' = list \ {arg} /\ deferred' = deferred \cup {arg}
        \/ list' = list /\ deferred' = deferred
    BY DEF MarkExited
  <2>. QED
    BY <1>0, <2>1 DEF MarkExited, Allocated
<1>. QED
  BY <1>2, <1>3, <1>4, KinTransitive DEF SameSpaces

LEMMA TimerSpaces == ASSUME IInv, NEW woken \in SUBSET Pids, Timer(woken) PROVE SameSpaces
<1>1. \A q \in Pids : pcb[q] \in Pcb
  BY DEF IInv, Static, Table
<1>2. ASSUME NEW q \in Pids PROVE KinPcb(pcb[q], pcb'[q])
  <2>1. \/ pcb'[q] = pcb[q]
        \/ pcb'[q] = [pcb[q] EXCEPT !.state = "READY"]
        \/ pcb'[q] = [pcb[q] EXCEPT !.state = "READY", !.futex = 0]
    BY DEF Timer
  <2>. QED
    BY <1>1, <2>1 DEF KinPcb, Pcb
<1>. QED
  BY <1>2 DEF SameSpaces, Kin, Allocated, Timer

\* The calls of the current process that set fields of its own record.
LEMMA OwnFieldsSpaces ==
    ASSUME IInv, NEW c, InCall(c), NEW r, KinPcb(pcb[current], r),
           pcb' = [pcb EXCEPT ![current] = r],
           list' = list, deferred' = deferred, dirs' = dirs
    PROVE  SameSpaces
BY Caller, KinSet DEF SameSpaces, Allocated, Listed

LEMMA OwnCallSpaces ==
    ASSUME IInv, Sleep \/ \E a \in Pids : FutexWait(a) PROVE SameSpaces
<1>1. InCall("sleep") \/ InCall("futex")
  BY DEF Sleep, FutexWait
<1>2. pcb[current] \in Pcb
  BY <1>1, Caller
<1>3. CASE Sleep
  <2>1. PICK r : r = [pcb[current] EXCEPT !.state = "SLEEPING"]
    OBVIOUS
  <2>2. KinPcb(pcb[current], r)
    BY <1>2, <2>1 DEF KinPcb, Pcb
  <2>3. pcb' = [pcb EXCEPT ![current] = r]
    BY <1>3, <2>1 DEF Sleep
  <2>. QED
    BY <1>1, <1>3, <2>2, <2>3, OwnFieldsSpaces DEF Sleep
<1>4. ASSUME NEW a \in Pids, FutexWait(a) PROVE SameSpaces
  <2>1. PICK r : r = [pcb[current] EXCEPT !.state = "WAITING", !.futex = a]
    OBVIOUS
  <2>2. KinPcb(pcb[current], r)
    BY <1>2, <2>1 DEF KinPcb, Pcb
  <2>3. pcb' = [pcb EXCEPT ![current] = r]
    BY <1>4, <2>1 DEF FutexWait
  <2>. QED
    BY <1>1, <1>4, <2>2, <2>3, OwnFieldsSpaces DEF FutexWait
<1>. QED
  BY <1>3, <1>4

LEMMA WaitFindsNothingSpaces ==
    ASSUME IInv, NEW w \in PidOrNone, NEW untraced \in BOOLEAN, NEW blocks \in BOOLEAN,
           WaitFindsNothing(w, untraced, blocks)
    PROVE  /\ SameSpaces /\ list' = list /\ runq' = runq /\ deferred' = {} /\ deferred = {}
           /\ blocks => pcb' = [pcb EXCEPT ![current].state = "WAITING",
                                           ![current].wait_pid = w,
                                           ![current].untraced = untraced]
           /\ ~blocks => pcb' = pcb
<1>1. /\ current \in Pids /\ deferred = {} /\ pcb \in Table /\ pcb[current] \in Pcb
  BY Caller DEF WaitFindsNothing, Listed
<1>2. PICK t, X :
        /\ X = Reapable(current)
        /\ t = IF blocks THEN [pcb EXCEPT ![current].state = "WAITING",
                                         ![current].wait_pid = w,
                                         ![current].untraced = untraced]
               ELSE pcb
        /\ Reap(X, t, list, runq)
        /\ dirs' = dirs \ DirsDestroyed(X, t, list)
  BY DEF WaitFindsNothing
<1>3. PICK r : r = [pcb[current] EXCEPT !.state = "WAITING", !.wait_pid = w,
                                        !.untraced = untraced]
  OBVIOUS
<1>4. KinPcb(pcb[current], r)
  BY <1>1, <1>3 DEF KinPcb, Pcb
<1>5. t = IF blocks THEN [pcb EXCEPT ![current] = r] ELSE pcb
  BY <1>2, <1>3
<1>6. Kin(pcb, t) /\ DOMAIN t = Pids
  BY <1>1, <1>4, <1>5, KinSet, KinSame DEF Table
<1>7. X = {} /\ DirsDestroyed(X, t, list) = {}
  BY <1>1, <1>2 DEF Reapable, DirsDestroyed
<1>8. /\ pcb' = [p \in Pids |-> t[p]]
      /\ list' = list /\ runq' = runq /\ deferred' = {} /\ dirs' = dirs
  <2>1. /\ pcb' = [p \in Pids |-> IF p \in X THEN FreePcb ELSE t[p]]
        /\ list' = list \ X /\ runq' = runq \ X /\ deferred' = deferred \ X
    BY <1>2 DEF Reap
  <2>2. pcb' = [p \in Pids |-> t[p]]
    BY ONLY <2>1, <1>7
  <2>3. list' = list /\ runq' = runq /\ deferred' = {}
    BY ONLY <2>1, <1>7, <1>1
  <2>4. dirs' = dirs
    BY <1>2, <1>7
  <2>. QED
    BY <2>2, <2>3, <2>4
<1>9. t = [p \in Pids |-> t[p]]
  BY <1>1, <1>5 DEF Table
<1>10. pcb' = t
  BY <1>8, <1>9
<1>. QED
  BY <1>1, <1>2, <1>6, <1>8, <1>10 DEF SameSpaces, Allocated

LEMMA SetpgidSpaces ==
    ASSUME IInv, NEW q \in Pids, NEW g, Setpgid(q, g) PROVE SameSpaces
<1>1. pcb \in Table
  BY DEF IInv, Static
<1>2. PICK r : r = [pcb[q] EXCEPT !.pgid = g]
  OBVIOUS
<1>3. KinPcb(pcb[q], r)
  BY <1>1, <1>2 DEF KinPcb, Table, Pcb
<1>4. pcb' = [pcb EXCEPT ![q] = r]
  BY <1>2 DEF Setpgid
<1>5. Kin(pcb, pcb')
  BY ONLY <1>1, <1>3, <1>4, KinSet, q \in Pids
<1>. QED
  BY <1>5 DEF SameSpaces, Allocated, Setpgid

LEMMA SendSpaces ==
    ASSUME IInv, (\E q \in Pids, sig \in Signals : Kill(q, sig)) \/ PgrpSend
    PROVE  SameSpaces
<1>0. Listed(pcb)
  BY StaticListed DEF IInv
<1>1. ASSUME NEW q \in Pids, NEW sig \in Signals, Kill(q, sig) PROVE SameSpaces
  <2>1. q \in list /\ (pcb' = pcb \/ pcb' = SignalSend(pcb, q, sig))
    BY <1>1 DEF Kill
  <2>. QED
    BY <1>0, <1>1, <2>1, SendKin, KinSame DEF SameSpaces, Allocated, Kill
<1>2. CASE PgrpSend
  <2>1. arg \in list /\ (pcb' = pcb \/ pcb' = SignalSend(pcb, arg, pgsig.sig))
    BY <1>2 DEF PgrpSend, IInv, Dynamic, KernelStepsSound
  <2>. QED
    BY <1>0, <1>2, <2>1, SendKin, KinSame DEF SameSpaces, Allocated, PgrpSend
<1>. QED
  BY <1>1, <1>2

LEMMA DispatchSpaces ==
    ASSUME IInv, HandleTrap \/ DispatchSignal PROVE SameSpaces
<1>0. pcb \in Table /\ Listed(pcb)
  BY StaticListed DEF IInv, Static
<1>1. CASE HandleTrap
  <2>1. CASE pcb' = pcb
    BY <1>1, <2>1, KinSame DEF SameSpaces, Allocated, HandleTrap
  <2>2. CASE current # 0 /\ pcb' = [pcb EXCEPT ![current].state = "READY"]
    <3>1. current \in Pids
      BY <2>2 DEF IInv, Dynamic, PidOrNone, Pids
    <3>2. "READY" \in States
      BY DEF States
    <3>3. Kin(pcb, pcb')
      BY ONLY <1>0, <2>2, <3>1, <3>2, SetStateKin
    <3>. QED
      BY <1>1, <3>3 DEF SameSpaces, Allocated, HandleTrap
  <2>. QED
    BY <1>1, <2>1, <2>2 DEF HandleTrap
<1>2. CASE DispatchSignal
  <2>1. arg \in list /\ arg \in Pids /\ pcb[arg] \in Pcb /\ pcb[arg].state = "READY"
    BY <1>0, <1>2, ListedPcb DEF DispatchSignal, IInv, Static, Dynamic, KernelStepsSound
  <2>2. PICK P : P = pcb[arg].pending \ {NextSignal(arg)}
    OBVIOUS
  <2>3. PICK r : r = [pcb[arg] EXCEPT !.pending = P]
    OBVIOUS
  <2>4. r \in Pcb /\ KinPcb(pcb[arg], r) /\ r.state = "READY"
    <3>1. P \in SUBSET Pendable
      BY <2>1, <2>2 DEF Pcb
    <3>2. PICK m \in Pcb : m = pcb[arg]
      BY <2>1
    <3>3. r = [m EXCEPT !.pending = P]
      BY <2>3, <3>2
    <3>. QED
      BY <2>1, <3>1, <3>2, <3>3 DEF KinPcb, Pcb
  <2>5. PICK t : t = [pcb EXCEPT ![arg] = r]
    OBVIOUS
  <2>6. t \in Table /\ Kin(pcb, t) /\ Listed(t)
    <3>1. t \in Table /\ t[arg] = r /\ \A p \in Pids \ {arg} : t[p] = pcb[p]
      BY <1>0, <2>1, <2>4, <2>5 DEF Table
    <3>2. Listed(t)
      BY <1>0, <2>1, <2>4, <3>1, StatesFacts DEF Listed
    <3>. QED
      BY <1>0, <2>1, <2>4, <2>5, <3>1, <3>2, KinSet
  <2>7. t = [pcb EXCEPT ![arg].pending = @ \ {NextSignal(arg)}]
    BY <2>2, <2>3, <2>5
  <2>8. pcb' = t \/ pcb' = Stop(t, arg)
    BY <1>2, <2>7 DEF DispatchSignal
  <2>9. Kin(pcb, pcb')
    BY <2>1, <2>6, <2>8, StopKin, KinTransitive
  <2>. QED
    BY <1>2, <2>9 DEF SameSpaces, Allocated, DispatchSignal
<1>. QED
  BY <1>1, <1>2

\* All of them.
QuietCall ==
    \/ ForkFails \/ ExecFails \/ Exit \/ FatalFault \/ Sleep
    \/ \E w \in PidOrNone, untraced, blocks \in BOOLEAN : WaitFindsNothing(w, untraced, blocks)
    \/ \E a \in Pids : FutexWait(a) \/ \E all \in BOOLEAN : FutexWake(a, all)
    \/ \E q \in Pids, g \in Groups : Setpgid(q, g)
    \/ \E q \in Pids, sig \in Signals : Kill(q, sig)

QuietKernel ==
    \/ MarkExited \/ PgrpSend \/ PgrpNext \/ HandleTrap \/ DispatchSignal
    \/ \E p \in Pids : PickNext(p)

LEMMA QuietSpaces == ASSUME IInv, QuietCall \/ Interrupt \/ QuietKernel PROVE SameSpaces
<1>0. pcb \in Table /\ Listed(pcb) /\ list \subseteq Pids
  BY StaticListed DEF IInv, Static
<1>1. CASE \/ ForkFails \/ Exit \/ FatalFault \/ PgrpNext
           \/ \E p \in Pids : PickNext(p)
           \/ \E g \in Groups, sig \in Signals : KillPgrp(g, sig)
  <2>1. pcb' = pcb /\ list' = list /\ deferred' = deferred /\ dirs' = dirs
    BY <1>1 DEF ForkFails, Exit, FatalFault, PgrpNext, PickNext, KillPgrp
  <2>. QED
    BY <2>1, KinSame DEF SameSpaces, Allocated
<1>2. CASE ExecFails
  BY <1>0, <1>2, ReleaseKin DEF ExecFails, SameSpaces, Allocated
<1>3. CASE \E a \in Pids : \E all \in BOOLEAN : FutexWake(a, all)
  BY <1>0, <1>3, WakeFutexKin DEF FutexWake, SameSpaces, Allocated
<1>. QED
  BY <1>1, <1>2, <1>3, MarkExitedSpaces, TimerSpaces, OwnCallSpaces, WaitFindsNothingSpaces,
     SetpgidSpaces, SendSpaces, DispatchSpaces DEF QuietCall, Interrupt, QuietKernel

-----------------------------------------------------------------------------
(* Processes are freed: only process_reap destroys directories.            *)

Frees(X, t) ==
    /\ X \subseteq Allocated /\ Allocated \ X \subseteq list
    /\ \A x \in X : list \cap X \subseteq {x}
    /\ Kin(pcb, t) /\ Keeps(pcb, t)
    /\ \A p \in Pids : pcb'[p] = IF p \in X THEN FreePcb ELSE t[p]
    /\ list' = list \ X /\ runq' = runq \ X
    /\ deferred' = {} /\ dirs' = dirs \ DirsDestroyed(X, t, list)

LEMMA PickIdleFrees == ASSUME IInv, PickIdle PROVE Frees(Reapable(0), pcb)
<1>1. PICK X : X = Reapable(0)
  OBVIOUS
<1>2. X = deferred /\ list \cap X = {}
  BY <1>1, StatesFacts DEF Reapable, IInv, Static, Pids
<1>3. /\ pcb' = [p \in Pids |-> IF p \in X THEN FreePcb ELSE pcb[p]]
      /\ list' = list \ X /\ runq' = runq \ X /\ deferred' = deferred \ X
      /\ dirs' = dirs \ DirsDestroyed(X, pcb, list)
  BY <1>1 DEF PickIdle, Reap
<1>4. Frees(X, pcb)
  BY <1>2, <1>3, SameKeeps, KinSame DEF Frees, Allocated
<1>. QED
  BY <1>1, <1>4

LEMMA RunFrees ==
    ASSUME IInv, Run PROVE Frees(Reapable(arg), [pcb EXCEPT ![arg].state = "RUNNING"])
<1>1. /\ arg \in list /\ arg \in Pids /\ pcb[arg].state = "READY" /\ pcb[arg] \in Pcb
      /\ pcb \in Table
  BY StaticListed, ListedPcb DEF Run, IInv, Static, Dynamic, KernelStepsSound
<1>2. PICK t, X : t = [pcb EXCEPT ![arg].state = "RUNNING"] /\ X = Reapable(arg)
  OBVIOUS
<1>3. X = deferred /\ list \cap X = {}
  BY <1>1, <1>2, StatesFacts DEF Reapable, IInv, Static
<1>4. Kin(pcb, t)
  <2>1. "RUNNING" \in States
    BY DEF States
  <2>. QED
    BY ONLY <1>1, <1>2, <2>1, SetStateKin
<1>5. Keeps(pcb, t)
  <2>1. PICK r \in Pcb : r = [pcb[arg] EXCEPT !.state = "RUNNING"]
    BY <1>1, SetState, StatesFacts
  <2>2. r.stack = pcb[arg].stack /\ r.dir = pcb[arg].dir /\ r.state = "RUNNING"
    BY <1>1, <2>1 DEF Pcb
  <2>3. t \in Table /\ t[arg] = r /\ \A p \in Pids \ {arg} : t[p] = pcb[p]
    BY <1>1, <1>2, <2>1 DEF Table
  <2>. QED
    BY <1>1, <2>2, <2>3, StatesFacts DEF Keeps
<1>6. /\ pcb' = [p \in Pids |-> IF p \in X THEN FreePcb ELSE t[p]]
      /\ list' = list \ X /\ runq' = runq \ X /\ deferred' = deferred \ X
      /\ dirs' = dirs \ DirsDestroyed(X, t, list)
  BY <1>2 DEF Run, Reap
<1>7. Frees(X, t)
  BY <1>3, <1>4, <1>5, <1>6 DEF Frees, Allocated
<1>. QED
  BY <1>2, <1>7

LEMMA WaitReportsFrees ==
    ASSUME IInv, NEW w \in PidOrNone, NEW untraced \in BOOLEAN, WaitReports(w, untraced)
    PROVE  \E c, t, X :
             /\ c \in list
             /\ pcb[c].parent = current
             /\ X = IF pcb[c].state = "ZOMBIE" THEN {c} ELSE {}
             /\ t = IF pcb[c].state = "ZOMBIE" THEN AnswerWait(pcb, current)
                    ELSE [pcb EXCEPT ![c].stop = FALSE]
             /\ Frees(X, t)
<1>1. /\ current \in list /\ current \in Pids /\ Listed(pcb) /\ deferred = {}
      /\ pcb[current].state = "RUNNING" /\ pcb \in Table /\ list \subseteq Pids
  BY Caller DEF WaitReports, Listed
<1>2. PICK c \in list : \E t, X :
        /\ IsFirst(c, Reports(w, untraced))
        /\ X = IF pcb[c].state = "ZOMBIE" THEN {c} ELSE {}
        /\ t = IF pcb[c].state = "ZOMBIE" THEN AnswerWait(pcb, current)
               ELSE [pcb EXCEPT ![c].stop = FALSE]
        /\ Reap(Reapable(current) \cup X, t, list, runq)
        /\ dirs' = dirs \ DirsDestroyed(Reapable(current) \cup X, t, list)
  BY DEF WaitReports
<1>3. PICK t, X :
        /\ IsFirst(c, Reports(w, untraced))
        /\ X = IF pcb[c].state = "ZOMBIE" THEN {c} ELSE {}
        /\ t = IF pcb[c].state = "ZOMBIE" THEN AnswerWait(pcb, current)
               ELSE [pcb EXCEPT ![c].stop = FALSE]
        /\ Reap(Reapable(current) \cup X, t, list, runq)
        /\ dirs' = dirs \ DirsDestroyed(Reapable(current) \cup X, t, list)
  BY <1>2
<1>4. Evolves(pcb, t) /\ Kin(pcb, t)
  BY <1>1, <1>3, AnswerEvolves, ClearStopEvolves, AnswerKin, ClearStopKin
<1>5. pcb[c].parent = current
  BY <1>3 DEF IsFirst, Reports, WaitFor
<1>6. Reapable(current) \cup X = X /\ X \subseteq {c}
  BY <1>1, <1>3 DEF Reapable
<1>7. /\ pcb' = [p \in Pids |-> IF p \in X THEN FreePcb ELSE t[p]]
      /\ list' = list \ X /\ runq' = runq \ X /\ deferred' = deferred \ X
      /\ dirs' = dirs \ DirsDestroyed(X, t, list)
  <2>1. Reap(X, t, list, runq) /\ dirs' = dirs \ DirsDestroyed(X, t, list)
    BY <1>3, <1>6
  <2>. QED
    BY <2>1 DEF Reap
<1>8. Frees(X, t)
  BY <1>1, <1>4, <1>6, <1>7, EvolvesKeeps DEF Frees, Allocated
<1>. QED
  BY <1>3, <1>5, <1>8

\* Every step is of one of these kinds.
LEMMA StepKinds ==
    ASSUME IInv, Next
    PROVE  \/ SameSpaces \/ \E X, t : Frees(X, t)
           \/ Fork \/ Vfork \/ Exec \/ \E faulty \in BOOLEAN : CloneThread(faulty)
<1>1. CASE Syscall
  <2>1. CASE \E w \in PidOrNone, untraced \in BOOLEAN : WaitReports(w, untraced)
    BY <2>1, WaitReportsFrees
  <2>2. CASE QuietCall
    BY <2>2, QuietSpaces
  <2>. QED
    BY <1>1, <2>1, <2>2 DEF Syscall, QuietCall
<1>2. CASE Interrupt
  BY <1>2, QuietSpaces
<1>3. CASE KernelStep
  BY <1>3, QuietSpaces, PickIdleFrees, RunFrees DEF KernelStep, QuietKernel
<1>. QED
  BY <1>1, <1>2, <1>3 DEF Next

-----------------------------------------------------------------------------
(* Nobody uses a destroyed directory.                                      *)

LEMMA FreesDirsLive ==
    ASSUME IInv, DirsLive, NEW X, NEW t, Frees(X, t) PROVE DirsLive'
<1>1. ASSUME NEW p \in Allocated' PROVE pcb'[p].dir \in dirs'
  <2>1. /\ p \in list /\ p \notin X /\ p \in Pids /\ pcb'[p] = t[p] /\ X \subseteq Pids
        /\ dirs' = dirs \ DirsDestroyed(X, t, list)
    BY <1>1 DEF Frees, Allocated, IInv, Static
  <2>2. t[p].dir = pcb[p].dir /\ pcb[p].dir \in dirs /\ t[p].state # "DEAD"
    BY <2>1, StatesFacts DEF Frees, Kin, KinPcb, Keeps, DirsLive, Allocated, IInv, Static
  <2>3. ASSUME NEW x \in X, pcb[x].dir = pcb[p].dir PROVE HasSharedPageDir(t, x, list)
    BY <2>1, <2>2, <2>3 DEF Frees, Kin, KinPcb, HasSharedPageDir
  <2>4. pcb[p].dir \notin DirsDestroyed(X, t, list)
    BY <2>3 DEF DirsDestroyed
  <2>. QED
    BY <2>1, <2>2, <2>4
<1>. QED
  BY <1>1 DEF DirsLive

LEMMA SameDirsLive == ASSUME IInv, DirsLive, SameSpaces PROVE DirsLive'
<1>1. Allocated \subseteq Pids
  BY DEF Allocated, IInv, Static
<1>. QED
  BY <1>1 DEF DirsLive, SameSpaces, Kin, KinPcb

LEMMA ExecDirsLive ==
    ASSUME IInv, DirsLive, Exec, "execshared" \notin Calls PROVE DirsLive'
<1>1. PICK u : u = ReleaseVforkParent(pcb, current)
  OBVIOUS
<1>2. /\ current \in list /\ current \in Pids /\ deferred = {} /\ deferred' = {}
      /\ list' = list /\ Kin(pcb, u)
      /\ InCall(IF ~pcb[current].vforkvm /\ HasSharedPageDir(pcb, current, list)
                THEN "execshared" ELSE "exec")
      /\ dirs' = (dirs \cup {pcb'[current].dir})
                     \ (IF pcb[current].vforkvm THEN {} ELSE {pcb[current].dir})
      /\ \A p \in Pids \ {current} : pcb'[p] = u[p]
      /\ pcb'[current].dir \notin dirs
  BY <1>1, ExecShape
<1>3. pcb[current].vforkvm \/ ~HasSharedPageDir(pcb, current, list)
  BY <1>2 DEF InCall
<1>4. ASSUME NEW p \in list PROVE pcb'[p].dir \in dirs'
  <2>1. CASE p = current
    <3>1. pcb[current].dir \in dirs
      BY <1>2 DEF DirsLive, Allocated
    <3>. QED
      BY <1>2, <2>1, <3>1
  <2>2. CASE p # current
    <3>1. p \in Pids /\ pcb[p].state # "DEAD"
      BY StatesFacts DEF IInv, Static
    <3>2. pcb'[p].dir = pcb[p].dir
      BY <1>2, <2>2, <3>1 DEF Kin, KinPcb
    <3>3. pcb[p].dir \in dirs
      BY DEF DirsLive, Allocated
    <3>4. pcb[current].vforkvm \/ pcb[p].dir # pcb[current].dir
      BY <1>3, <2>2, <3>1 DEF HasSharedPageDir
    <3>. QED
      BY <1>2, <3>2, <3>3, <3>4
  <2>. QED
    BY <2>1, <2>2
<1>. QED
  BY <1>2, <1>4 DEF DirsLive, Allocated

LEMMA BirthDirsLive ==
    ASSUME IInv, DirsLive, Fork \/ Vfork \/ \E faulty \in BOOLEAN : CloneThread(faulty)
    PROVE  DirsLive'
<1>1. Allocated \subseteq Pids
  BY DEF Allocated, IInv, Static
<1>2. CASE Fork
  BY <1>1, <1>2, ForkShape DEF DirsLive, Allocated
<1>3. CASE Vfork
  BY <1>1, <1>3, VforkShape DEF DirsLive, Allocated, KinPcb
<1>4. ASSUME NEW faulty \in BOOLEAN, CloneThread(faulty) PROVE DirsLive'
  BY <1>1, <1>4, CloneShape DEF DirsLive, Allocated
<1>. QED
  BY <1>2, <1>3, <1>4

LEMMA DirsLiveStep ==
    ASSUME "execshared" \notin Calls
    PROVE  IInv /\ DirsLive /\ [Next]_vars => DirsLive'
<1>1. ASSUME IInv, DirsLive, UNCHANGED vars PROVE DirsLive'
  BY <1>1 DEF vars, DirsLive, Allocated
<1>2. ASSUME IInv, DirsLive, Next PROVE DirsLive'
  BY <1>2, StepKinds, SameDirsLive, FreesDirsLive, ExecDirsLive, BirthDirsLive
<1>. QED
  BY <1>1, <1>2

LEMMA InitDir == Init => Allocated = {1} /\ pcb[1].dir = 1 /\ dirs = {1} /\ 1 \in Pids
BY ConstantsAssumption DEF Init, Allocated, FreePcb, Pids

\* No process has a page directory that has been destroyed, as long as exec is
\* not called by a process whose address space others still use (sys_execve
\* destroys it without asking; process_reap asks).
THEOREM DirsKept == ASSUME "execshared" \notin Calls PROVE Spec => []DirsLive
<1>1. Init => DirsLive
  BY InitDir DEF DirsLive
<1>. QED
  BY <1>1, DirsLiveStep, Invariance, PTL DEF Spec

-----------------------------------------------------------------------------
(* No directory outlives its users, as long as nobody borrows one.         *)

Owned == \A p \in Pids : pcb[p].vforkvm = FALSE

LEMMA FreesNotLeaked ==
    ASSUME IInv, DirsNotLeaked, Owned, NEW X, NEW t, Frees(X, t)
    PROVE  DirsNotLeaked' /\ Owned'
<1>0. X \subseteq Pids /\ Allocated \subseteq Pids
  BY DEF Frees, Allocated, IInv, Static
<1>1. ASSUME NEW d \in dirs' PROVE \E p \in Allocated' : pcb'[p].dir = d
  <2>1. /\ d \in dirs /\ d \notin DirsDestroyed(X, t, list)
    BY <1>1 DEF Frees
  <2>2. PICK p \in Allocated : pcb[p].dir = d
    BY <2>1 DEF DirsNotLeaked
  <2>3. CASE p \notin X
    BY <1>0, <2>2, <2>3 DEF Frees, Kin, KinPcb, Allocated
  <2>4. CASE p \in X
    <3>1. HasSharedPageDir(t, p, list)
      BY <2>1, <2>2, <2>4 DEF DirsDestroyed
    <3>2. PICK r \in list \ {p} : t[r].dir = t[p].dir
      BY <3>1 DEF HasSharedPageDir
    <3>3. r \notin X /\ r \in Pids /\ p \in Pids
      BY <1>0, <2>4, <3>2 DEF Frees, IInv, Static
    <3>4. t[p].dir = pcb[p].dir
      BY <3>3 DEF Frees, Kin, KinPcb
    <3>5. r \in Allocated' /\ pcb'[r].dir = t[r].dir
      BY <3>2, <3>3 DEF Frees, Allocated
    <3>. QED
      BY <2>2, <3>2, <3>4, <3>5
  <2>. QED
    BY <2>3, <2>4
<1>2. ASSUME NEW p \in Pids PROVE pcb'[p].vforkvm = FALSE
  <2>1. CASE p \in X
    BY <2>1 DEF Frees, FreePcb
  <2>2. CASE p \notin X
    BY <2>2 DEF Frees, Kin, KinPcb, Owned
  <2>. QED
    BY <2>1, <2>2
<1>. QED
  BY <1>1, <1>2 DEF DirsNotLeaked, Owned

LEMMA SameNotLeaked ==
    ASSUME IInv, DirsNotLeaked, Owned, SameSpaces PROVE DirsNotLeaked' /\ Owned'
<1>1. Allocated \subseteq Pids
  BY DEF Allocated, IInv, Static
<1>2. Owned'
  BY DEF Owned, SameSpaces, Kin, KinPcb
<1>. QED
  BY <1>1, <1>2 DEF DirsNotLeaked, SameSpaces, Kin, KinPcb

LEMMA ExecNotLeaked ==
    ASSUME IInv, DirsNotLeaked, Owned, Exec PROVE DirsNotLeaked' /\ Owned'
<1>1. PICK u : u = ReleaseVforkParent(pcb, current)
  OBVIOUS
<1>2. /\ current \in list /\ current \in Pids /\ deferred = {} /\ deferred' = {}
      /\ list' = list /\ Kin(pcb, u)
      /\ dirs' = (dirs \cup {pcb'[current].dir})
                     \ (IF pcb[current].vforkvm THEN {} ELSE {pcb[current].dir})
      /\ \A p \in Pids \ {current} : pcb'[p] = u[p]
      /\ pcb'[current].dir \notin dirs
  BY <1>1, ExecShape
<1>3. pcb'[current].vforkvm = FALSE
  BY <1>1, ExecShape
<1>4. Owned'
  BY <1>2, <1>3 DEF Owned, Kin, KinPcb
<1>5. dirs' = (dirs \cup {pcb'[current].dir}) \ {pcb[current].dir}
  BY <1>2 DEF Owned
<1>6. ASSUME NEW d \in dirs' PROVE \E p \in list' : pcb'[p].dir = d
  <2>1. CASE d = pcb'[current].dir
    BY <1>2, <2>1
  <2>2. CASE d # pcb'[current].dir
    <3>1. PICK p \in list : pcb[p].dir = d
      BY <1>2, <1>5, <2>2 DEF DirsNotLeaked, Allocated
    <3>2. p # current /\ p \in Pids
      BY <1>5, <1>6, <3>1 DEF IInv, Static
    <3>. QED
      BY <1>2, <3>1, <3>2 DEF Kin, KinPcb
  <2>. QED
    BY <2>1, <2>2
<1>. QED
  BY <1>4, <1>6 DEF DirsNotLeaked, Allocated

LEMMA BirthNotLeaked ==
    ASSUME IInv, DirsNotLeaked, Owned, Fork \/ \E faulty \in BOOLEAN : CloneThread(faulty)
    PROVE  DirsNotLeaked' /\ Owned'
<1>1. Allocated \subseteq Pids
  BY DEF Allocated, IInv, Static
<1>2. CASE Fork
  <2>1. pcb'[next_pid].vforkvm = pcb[current].vforkvm /\ current \in Pids
        /\ \A p \in Pids \ {next_pid} : pcb'[p] = pcb[p]
    BY <1>2, ForkShape
  <2>2. Owned'
    BY <2>1 DEF Owned
  <2>. QED
    BY <1>1, <1>2, <2>2, ForkShape DEF DirsNotLeaked, Allocated
<1>3. ASSUME NEW faulty \in BOOLEAN, CloneThread(faulty) PROVE DirsNotLeaked' /\ Owned'
  <2>1. pcb'[next_pid].vforkvm = pcb[current].vforkvm /\ current \in Pids
        /\ \A p \in Pids \ {next_pid} : pcb'[p] = pcb[p]
    BY <1>3, CloneShape
  <2>2. Owned'
    BY <2>1 DEF Owned
  <2>. QED
    BY <1>1, <1>3, <2>2, CloneShape DEF DirsNotLeaked, Allocated
<1>. QED
  BY <1>2, <1>3

\* No page directory is leaked as long as no program calls vfork: a child that
\* leaves a borrowed address space never destroys it, even when the parent is
\* gone (process_reap, sys_execve).
THEOREM DirsFreed == ASSUME "vfork" \notin Calls PROVE Spec => []DirsNotLeaked
<1>1. Init => DirsNotLeaked /\ Owned
  BY InitDir DEF DirsNotLeaked, Owned, Init, FreePcb
<1>2. IInv /\ (DirsNotLeaked /\ Owned) /\ [Next]_vars => (DirsNotLeaked /\ Owned)'
  <2>1. ASSUME UNCHANGED vars, DirsNotLeaked, Owned PROVE DirsNotLeaked' /\ Owned'
    BY <2>1 DEF vars, DirsNotLeaked, Owned, Allocated
  <2>2. ~Vfork
    BY DEF Vfork, InCall
  <2>3. ASSUME IInv, DirsNotLeaked, Owned, Next PROVE DirsNotLeaked' /\ Owned'
    BY <2>2, <2>3, StepKinds, SameNotLeaked, FreesNotLeaked, ExecNotLeaked, BirthNotLeaked
  <2>. QED
    BY <2>1, <2>3
<1>. QED
  BY <1>1, <1>2, Invariance, PTL DEF Spec

-----------------------------------------------------------------------------
(* The CPU never runs on a destroyed directory.                            *)

\* Without threads everything on the list is in the run queue.
NoThreads == (\A p \in Pids : pcb[p].thread = FALSE) /\ runq = list

\* Somebody on the list uses the loaded directory, or its last user has just
\* died and the parent that is told of it will run next.
LoadedHeld ==
    \/ \E p \in list : pcb[p].dir = cr3
    \/ /\ \E p \in deferred : pcb[p].dir = cr3
       /\ \/ kpc = "halt"
          \/ /\ Runnable # {}
             /\ kpc \in {"trap", "pick"} \/ (kpc = "pgnext" /\ arg \notin list)

\* What the steps that free nobody and create nobody do to the lists.
LEMMA QuietLists ==
    ASSUME IInv, QuietCall \/ Interrupt \/ QuietKernel
    PROVE  \/ MarkExited \/ HandleTrap \/ PgrpNext \/ \E p \in Pids : PickNext(p)
           \/ /\ list' = list /\ runq' = runq /\ deferred' = deferred /\ cr3' = cr3
              /\ kpc \notin {"trap", "pick", "pgnext"}
              /\ kpc = "halt" => kpc' = "halt"
<1>1. CASE ForkFails \/ ExecFails \/ Exit \/ FatalFault \/ Sleep
  BY <1>1 DEF ForkFails, ExecFails, Exit, FatalFault, Sleep, InCall
<1>2. CASE \E w \in PidOrNone, untraced, blocks \in BOOLEAN :
              WaitFindsNothing(w, untraced, blocks)
  <2>1. kpc = "user" /\ cr3' = cr3
    BY <1>2 DEF WaitFindsNothing, InCall
  <2>. QED
    BY <1>2, <2>1, WaitFindsNothingSpaces
<1>3. CASE \E a \in Pids : FutexWait(a) \/ \E all \in BOOLEAN : FutexWake(a, all)
  BY <1>3 DEF FutexWait, FutexWake, InCall
<1>4. CASE \E q \in Pids, g \in Groups : Setpgid(q, g)
  BY <1>4 DEF Setpgid, InCall
<1>5. CASE \E q \in Pids, sig \in Signals : Kill(q, sig)
  BY <1>5 DEF Kill, InCall
<1>6. CASE Interrupt
  BY <1>6 DEF Interrupt, Timer, KillPgrp, GoTo
<1>7. CASE PgrpSend \/ DispatchSignal
  BY <1>7 DEF PgrpSend, DispatchSignal
<1>. QED
  BY <1>1, <1>2, <1>3, <1>4, <1>5, <1>6, <1>7 DEF QuietCall, QuietKernel

\* A process that leaves at its death leaves a READY parent behind.
LEMMA DeathAnswers ==
    ASSUME IInv, MarkExited, LeavesAtDeath(arg), pcb[arg].thread = FALSE
    PROVE  \E pa \in list \ {arg} : pcb'[pa].state = "READY"
<1>0. arg \in list /\ arg \in Pids /\ Listed(pcb)
  BY StaticListed DEF MarkExited, IInv, Static, Dynamic, KernelStepsSound
<1>1. PICK t, pa : t = AfterDeath(arg) /\ pa = pcb[arg].parent
  OBVIOUS
<1>2. Listed(t) /\ t \in Table /\ t[arg].state = "ZOMBIE"
  BY <1>0, <1>1, AfterDeathEvolves, EvolvesListed, AfterDeathFacts DEF Listed
<1>3. pa \in list /\ t[pa].state = "WAITING" /\ pa # arg
  BY <1>1, <1>2 DEF LeavesAtDeath, AnswersWait, WaitMatches
<1>4. PICK u : u = AnswerWait(t, pa)
  OBVIOUS
<1>5. u[pa].state = "READY" /\ pa \in Pids /\ DOMAIN u = Pids
  BY <1>2, <1>3, <1>4, ListedPcb DEF AnswerWait, Table, Pcb
<1>6. pcb' = [u EXCEPT ![arg].state = "DEAD"]
  BY <1>1, <1>4 DEF MarkExited
<1>. QED
  BY <1>3, <1>5, <1>6

LEMMA QuietLoaded ==
    ASSUME IInv, NoThreads, LoadedHeld, QuietCall \/ Interrupt \/ QuietKernel
    PROVE  NoThreads' /\ LoadedHeld'
<1>1. /\ Kin(pcb, pcb') /\ list \subseteq Pids /\ deferred \subseteq Pids /\ pcb \in Table
      /\ kpc = "user" => deferred = {}
  BY QuietSpaces DEF SameSpaces, IInv, Static, Dynamic
<1>2. \A p \in Pids : pcb'[p].thread = FALSE /\ pcb'[p].dir = pcb[p].dir
  BY <1>1 DEF Kin, KinPcb, NoThreads
<1>3. CASE /\ list' = list /\ runq' = runq /\ deferred' = deferred /\ cr3' = cr3
           /\ kpc \notin {"trap", "pick", "pgnext"}
           /\ kpc = "halt" => kpc' = "halt"
  BY <1>1, <1>2, <1>3 DEF NoThreads, LoadedHeld
<1>4. CASE HandleTrap
  <2>1. /\ kpc = "trap" /\ kpc' = "pick" /\ list' = list /\ runq' = runq
        /\ deferred' = deferred /\ cr3' = cr3
    BY <1>4 DEF HandleTrap, GoTo
  <2>2. \A p \in Pids : pcb[p].state = "READY" => pcb'[p].state = "READY"
    <3>1. \/ pcb' = pcb
          \/ current # 0 /\ pcb' = [pcb EXCEPT ![current].state = "READY"]
      BY <1>4 DEF HandleTrap
    <3>. QED
      BY <1>1, <3>1 DEF Table, Pcb
  <2>3. Runnable \subseteq Runnable'
    BY <1>1, <2>1, <2>2 DEF Runnable, NoThreads
  <2>. QED
    BY <1>1, <1>2, <2>1, <2>3 DEF NoThreads, LoadedHeld
<1>5. CASE PgrpNext
  <2>1. /\ kpc = "pgnext" /\ list' = list /\ runq' = runq /\ pcb' = pcb
        /\ deferred' = deferred /\ cr3' = cr3
    BY <1>5 DEF PgrpNext
  <2>2. arg \notin list => kpc' = "trap"
    BY <1>5 DEF PgrpNext, GoTo, IsFirst
  <2>3. Runnable' = Runnable
    BY <2>1 DEF Runnable
  <2>. QED
    BY <2>1, <2>2, <2>3 DEF NoThreads, LoadedHeld
<1>6. ASSUME NEW p \in Pids, PickNext(p) PROVE NoThreads' /\ LoadedHeld'
  BY <1>2, <1>6 DEF PickNext, Runnable, NoThreads, LoadedHeld
<1>7. CASE MarkExited
  <2>1. /\ kpc = "die" /\ cr3' = cr3 /\ kpc' = ret /\ arg \in list
        /\ ret \in {"trap", "pick", "pgnext", "halt"}
        /\ arg' = IF ret = "pgnext" THEN arg ELSE 0
    BY <1>7 DEF MarkExited, GoTo, IInv, Dynamic, KernelStepsSound
  <2>2. PICK p \in list : pcb[p].dir = cr3
    BY <2>1 DEF LoadedHeld
  <2>3. CASE ~LeavesAtDeath(arg)
    <3>1. list' = list /\ runq' = runq
      BY <1>7, <2>3 DEF MarkExited
    <3>. QED
      BY <1>1, <1>2, <2>1, <2>2, <3>1 DEF NoThreads, LoadedHeld
  <2>4. CASE LeavesAtDeath(arg)
    <3>1. list' = list \ {arg} /\ runq' = runq \ {arg} /\ deferred' = deferred \cup {arg}
      BY <1>7, <2>4 DEF MarkExited
    <3>2. PICK pa \in list \ {arg} : pcb'[pa].state = "READY"
      BY <1>1, <1>7, <2>1, <2>4, DeathAnswers DEF NoThreads
    <3>3. Runnable' # {} /\ NoThreads'
      BY <1>2, <3>1, <3>2 DEF Runnable, NoThreads
    <3>4. CASE p # arg
      BY <1>1, <1>2, <2>1, <2>2, <3>1, <3>3, <3>4 DEF LoadedHeld
    <3>5. CASE p = arg
      <4>1. p \in deferred' /\ pcb'[p].dir = cr3'
        BY <1>1, <1>2, <2>1, <2>2, <3>1, <3>5
      <4>2. kpc' = "pgnext" => arg' \notin list'
        BY <2>1, <3>1
      <4>. QED
        BY <2>1, <3>3, <4>1, <4>2 DEF LoadedHeld
    <3>. QED
      BY <3>4, <3>5
  <2>. QED
    BY <2>3, <2>4
<1>. QED
  BY <1>3, <1>4, <1>5, <1>6, <1>7, QuietLists

LEMMA FreesLoaded ==
    ASSUME IInv, NoThreads, NEW X, NEW t, Frees(X, t), NEW p \in list \ X,
           pcb[p].dir = cr3, cr3' = cr3
    PROVE  NoThreads' /\ LoadedHeld'
<1>1. p \in list' /\ p \in Pids /\ pcb'[p].dir = cr3'
  BY DEF Frees, Kin, KinPcb, IInv, Static
<1>2. \A q \in Pids : pcb'[q].thread = FALSE
  BY DEF Frees, Kin, KinPcb, FreePcb, NoThreads
<1>3. runq' = list'
  BY DEF Frees, NoThreads
<1>. QED
  BY <1>1, <1>2, <1>3 DEF NoThreads, LoadedHeld

LEMMA FreeingLoaded ==
    ASSUME IInv, NoThreads, LoadedHeld,
           \/ PickIdle \/ Run
           \/ \E w \in PidOrNone, untraced \in BOOLEAN : WaitReports(w, untraced)
    PROVE  NoThreads' /\ LoadedHeld'
<1>1. \A p \in Pids : p \in list => p \notin deferred
  BY StatesFacts DEF IInv, Static
<1>2. CASE PickIdle
  <2>1. kpc = "pick" /\ Runnable = {} /\ cr3' = cr3
    BY <1>2 DEF PickIdle
  <2>2. PICK p \in list : pcb[p].dir = cr3
    BY <2>1 DEF LoadedHeld
  <2>3. p \notin Reapable(0)
    BY <1>1 DEF Reapable, IInv, Static
  <2>. QED
    BY <1>2, <2>1, <2>2, <2>3, PickIdleFrees, FreesLoaded
<1>3. CASE Run
  <2>1. arg \in list /\ cr3 = pcb[arg].dir /\ cr3' = cr3 /\ arg \notin Reapable(arg)
    BY <1>3 DEF Run, IInv, Static, Dynamic, KernelStepsSound, Reapable
  <2>. QED
    BY <1>3, <2>1, RunFrees, FreesLoaded
<1>4. ASSUME NEW w \in PidOrNone, NEW untraced \in BOOLEAN, WaitReports(w, untraced)
      PROVE  NoThreads' /\ LoadedHeld'
  <2>1. InCall("wait") \/ InCall("untraced")
    BY <1>4 DEF WaitReports
  <2>2. current \in list /\ pcb[current].state = "RUNNING" /\ cr3 = pcb[current].dir
    BY <2>1, Caller DEF IInv, Dynamic, CurrentRuns, InCall
  <2>3. cr3' = cr3
    BY <1>4 DEF WaitReports
  <2>4. PICK c, t, X :
          /\ c \in list
          /\ X = IF pcb[c].state = "ZOMBIE" THEN {c} ELSE {}
          /\ Frees(X, t)
    BY <1>4, WaitReportsFrees
  <2>5. current \notin X
    BY <2>2, <2>4
  <2>. QED
    BY <2>2, <2>3, <2>4, <2>5, FreesLoaded
<1>. QED
  BY <1>2, <1>3, <1>4

LEMMA BirthLoaded ==
    ASSUME IInv, NoThreads, LoadedHeld, Fork \/ Vfork \/ Exec
    PROVE  NoThreads' /\ LoadedHeld'
<1>1. list \subseteq Pids /\ (kpc = "user" => deferred = {})
  BY DEF IInv, Static, Dynamic
<1>2. CASE Fork
  <2>1. pcb'[next_pid].thread = pcb[current].thread /\ current \in Pids
        /\ \A p \in Pids \ {next_pid} : pcb'[p] = pcb[p]
    BY <1>2, ForkShape
  <2>2. \A p \in Pids : pcb'[p].thread = FALSE
    BY <2>1 DEF NoThreads
  <2>3. list' = list \cup {next_pid} /\ runq' = runq \cup {next_pid} /\ cr3' = cr3
        /\ next_pid \notin list
    BY <1>2, ForkShape DEF Allocated
  <2>4. PICK p \in list : pcb[p].dir = cr3
    BY <1>1, <1>2 DEF Fork, InCall, LoadedHeld
  <2>. QED
    BY <1>1, <2>1, <2>2, <2>3, <2>4 DEF NoThreads, LoadedHeld
<1>3. CASE Vfork
  <2>1. /\ pcb'[next_pid].thread = pcb[current].thread /\ current \in Pids
        /\ \A p \in Pids \ {next_pid, current} : pcb'[p] = pcb[p]
        /\ KinPcb(pcb[current], pcb'[current])
    BY <1>3, VforkShape
  <2>2. \A p \in Pids : pcb'[p].thread = FALSE
    BY <2>1 DEF NoThreads, KinPcb
  <2>3. /\ list' = list \cup {next_pid} /\ runq' = runq \cup {next_pid}
        /\ cr3' = pcb[current].dir /\ pcb'[next_pid].dir = pcb[current].dir
    BY <1>3, VforkShape
  <2>. QED
    BY <2>2, <2>3 DEF NoThreads, LoadedHeld
<1>4. CASE Exec
  <2>1. PICK u : u = ReleaseVforkParent(pcb, current)
    OBVIOUS
  <2>2. /\ current \in list /\ list' = list /\ runq' = runq /\ Kin(pcb, u)
        /\ current \in Pids /\ cr3' = pcb'[current].dir
        /\ \A p \in Pids \ {current} : pcb'[p] = u[p]
    BY <1>4, <2>1, ExecShape
  <2>3. pcb'[current].thread = pcb[current].thread
    BY <1>4, <2>1, ExecShape
  <2>4. \A p \in Pids : pcb'[p].thread = FALSE
    BY <2>2, <2>3 DEF NoThreads, Kin, KinPcb
  <2>. QED
    BY <2>2, <2>4 DEF NoThreads, LoadedHeld
<1>. QED
  BY <1>2, <1>3, <1>4

\* The CPU never has a destroyed directory loaded, not even in the idle
\* fallback, which loads none of its own: the last user of the loaded one dies
\* only when the parent it wakes runs next. It needs that no process has
\* threads, whose deaths wake nobody (process_set_current, process_reap).
THEOREM LoadedKept ==
    ASSUME "execshared" \notin Calls, "thread" \notin Calls PROVE Spec => []LoadedDirLive
<1>1. Init => NoThreads /\ LoadedHeld
  <2>1. ASSUME Init PROVE NoThreads /\ LoadedHeld
    BY <2>1, InitDir DEF NoThreads, LoadedHeld, Init, FreePcb
  <2>. QED
    BY <2>1
<1>2. Init => DirsLive
  BY InitDir DEF DirsLive
<1>3. IInv /\ (NoThreads /\ LoadedHeld) /\ [Next]_vars => (NoThreads /\ LoadedHeld)'
  <2>1. ASSUME UNCHANGED vars, NoThreads, LoadedHeld PROVE NoThreads' /\ LoadedHeld'
    BY <2>1 DEF vars, NoThreads, LoadedHeld, Runnable
  <2>2. \A faulty \in BOOLEAN : ~CloneThread(faulty)
    BY DEF CloneThread, InCall
  <2>3. ASSUME IInv, NoThreads, LoadedHeld, Next PROVE NoThreads' /\ LoadedHeld'
    <3>1. CASE Syscall
      BY <2>2, <2>3, <3>1, QuietLoaded, FreeingLoaded, BirthLoaded DEF Syscall, QuietCall
    <3>2. CASE Interrupt
      BY <2>3, <3>2, QuietLoaded
    <3>3. CASE KernelStep
      BY <2>3, <3>3, QuietLoaded, FreeingLoaded DEF KernelStep, QuietKernel
    <3>. QED
      BY <2>3, <3>1, <3>2, <3>3 DEF Next
  <2>. QED
    BY <2>1, <2>3
<1>4. DirsLive /\ LoadedHeld => LoadedDirLive
  BY DEF DirsLive, LoadedHeld, LoadedDirLive, Allocated
<1>. QED
  BY <1>1, <1>2, <1>3, <1>4, DirsLiveStep, Invariance, PTL DEF Spec

-----------------------------------------------------------------------------
(* The family of a vfork.                                                  *)

\* A vfork parent that has not been released.
Held == {"WAITING", "STOPPED", "ZOMBIE"}

Family(t, L) ==
    /\ \A p \in Pids : t[p].thread = FALSE /\ t[p].futex = 0 /\ t[p].ctid = 0
    \* The parent is held, and its child is alive and will release it ...
    /\ \A p \in L : t[p].vfork_child # 0 =>
        /\ t[p].state \in Held
        /\ t[p].vfork_child \in L
        /\ t[t[p].vfork_child].state # "ZOMBIE"
        /\ t[t[p].vfork_child].parent = p
        /\ t[t[p].vfork_child].vforkvm = TRUE
    \* ... and whoever lives in its parent's address space holds it, unless
    \* the parent is dead.
    /\ \A c \in L : t[c].state # "ZOMBIE" /\ t[c].vforkvm = TRUE =>
        (t[c].parent \in L /\ t[t[c].parent].dir = t[c].dir =>
            t[t[c].parent].vfork_child = c \/ t[t[c].parent].state = "ZOMBIE")

\* A change that releases nobody and kills nobody.
CalmPcb(a, b) ==
    /\ KinPcb(a, b)
    /\ b.vfork_child = a.vfork_child /\ b.futex = a.futex /\ b.ctid = a.ctid
    /\ b.state = "ZOMBIE" <=> a.state = "ZOMBIE"
    /\ a.vfork_child # 0 => b.state \in {a.state, "STOPPED"}

Calm(t, u) == \A p \in Pids : CalmPcb(t[p], u[p])

LEMMA FamilySound ==
    ASSUME IInv, Family(pcb, list)
    PROVE  VforkSound
<1>1. list \subseteq Pids /\ \A p \in Pids : pcb[p].vforkvm \in BOOLEAN
  BY DEF IInv, Static, Table, Pcb
<1>2. VforkChildAlive
  BY <1>1 DEF Family, VforkChildAlive, Alive
<1>3. VforkParentHeld
  <2>1. ASSUME NEW c \in Pids, Alive(c), pcb[c].vforkvm, pcb[c].parent \in list,
               pcb[pcb[c].parent].dir = pcb[c].dir
        PROVE  pcb[pcb[c].parent].state \notin {"READY", "RUNNING"}
    <3>1. PICK pa \in list : pa = pcb[c].parent
      BY <2>1
    <3>2. c \in list /\ c # 0 /\ pcb[c].state # "ZOMBIE" /\ pcb[c].vforkvm = TRUE
      BY <1>1, <2>1 DEF Alive, Pids
    <3>3. pcb[pa].vfork_child = c \/ pcb[pa].state = "ZOMBIE"
      BY <2>1, <3>1, <3>2 DEF Family
    <3>4. pcb[pa].state \in Held
      BY <3>2, <3>3 DEF Family, Held
    <3>. QED
      BY <3>1, <3>4 DEF Held
  <2>. QED
    BY <2>1 DEF VforkParentHeld
<1>. QED
  BY <1>2, <1>3 DEF VforkSound

LEMMA CalmFamily ==
    ASSUME NEW t, NEW u, NEW L \in SUBSET Pids, Family(t, L), Calm(t, u)
    PROVE  Family(u, L)
<1>1. \A p \in Pids : u[p].thread = FALSE /\ u[p].futex = 0 /\ u[p].ctid = 0
  BY DEF Family, Calm, CalmPcb, KinPcb
<1>2. \A p \in Pids : /\ u[p].parent = t[p].parent /\ u[p].dir = t[p].dir
                      /\ u[p].vforkvm = t[p].vforkvm /\ u[p].vfork_child = t[p].vfork_child
                      /\ u[p].state = "ZOMBIE" <=> t[p].state = "ZOMBIE"
                      /\ t[p].vfork_child # 0 => u[p].state \in {t[p].state, "STOPPED"}
  BY DEF Calm, CalmPcb, KinPcb
<1>3. ASSUME NEW p \in L, u[p].vfork_child # 0
      PROVE  /\ u[p].state \in Held
             /\ u[p].vfork_child \in L
             /\ u[u[p].vfork_child].state # "ZOMBIE"
             /\ u[u[p].vfork_child].parent = p
             /\ u[u[p].vfork_child].vforkvm = TRUE
  <2>1. PICK c : c = t[p].vfork_child
    OBVIOUS
  <2>2. c # 0 /\ u[p].vfork_child = c
    BY <1>2, <1>3, <2>1
  <2>3. /\ t[p].state \in Held /\ c \in L /\ t[c].state # "ZOMBIE"
        /\ t[c].parent = p /\ t[c].vforkvm = TRUE
    BY <2>1, <2>2 DEF Family
  <2>. QED
    BY <1>2, <2>2, <2>3 DEF Held
<1>4. ASSUME NEW c \in L, u[c].state # "ZOMBIE", u[c].vforkvm = TRUE, u[c].parent \in L,
             u[u[c].parent].dir = u[c].dir
      PROVE  u[u[c].parent].vfork_child = c \/ u[u[c].parent].state = "ZOMBIE"
  <2>1. PICK pa \in L : pa = u[c].parent
    BY <1>4
  <2>2. /\ t[c].state # "ZOMBIE" /\ t[c].vforkvm = TRUE /\ t[c].parent = pa
        /\ t[pa].dir = t[c].dir
    BY <1>2, <1>4, <2>1
  <2>3. t[pa].vfork_child = c \/ t[pa].state = "ZOMBIE"
    BY <2>2 DEF Family
  <2>. QED
    BY <1>2, <2>1, <2>3
<1>. QED
  BY <1>1, <1>3, <1>4 DEF Family

\* Processes leave the list that nobody waits for in vfork.
LEMMA LeaveFamily ==
    ASSUME NEW t, NEW L \in SUBSET Pids, Family(t, L), NEW X, NEW u,
           \A p \in L \ X : t[p].vfork_child \notin X,
           \A p \in Pids \ X : u[p] = t[p],
           \A p \in X : u[p].thread = FALSE /\ u[p].futex = 0 /\ u[p].ctid = 0
    PROVE  Family(u, L \ X)
<1>1. \A p \in Pids : u[p].thread = FALSE /\ u[p].futex = 0 /\ u[p].ctid = 0
  BY DEF Family
<1>2. \A p \in L \ X : u[p] = t[p]
  OBVIOUS
<1>3. ASSUME NEW p \in L \ X, t[p].vfork_child # 0
      PROVE  t[p].vfork_child \in L \ X
  BY <1>3 DEF Family
<1>. QED
  BY <1>1, <1>2, <1>3 DEF Family

LEMMA CalmPcbSame == ASSUME NEW a PROVE CalmPcb(a, a)
BY KinPcbSame DEF CalmPcb

LEMMA CalmSame == ASSUME NEW t PROVE Calm(t, t)
BY CalmPcbSame DEF Calm

LEMMA CalmTransitive ==
    ASSUME NEW t, NEW u, NEW v, Calm(t, u), Calm(u, v) PROVE Calm(t, v)
<1>1. ASSUME NEW p \in Pids PROVE CalmPcb(t[p], v[p])
  <2>1. CalmPcb(t[p], u[p]) /\ CalmPcb(u[p], v[p])
    BY DEF Calm
  <2>. QED
    BY <2>1 DEF CalmPcb, KinPcb
<1>. QED
  BY <1>1 DEF Calm

LEMMA CalmSet ==
    ASSUME NEW t \in Table, NEW p \in Pids, NEW r, CalmPcb(t[p], r)
    PROVE  Calm(t, [t EXCEPT ![p] = r])
<1>1. ASSUME NEW q \in Pids PROVE CalmPcb(t[q], [t EXCEPT ![p] = r][q])
  BY CalmPcbSame DEF Table
<1>. QED
  BY <1>1 DEF Calm

LEMMA SetStateCalm ==
    ASSUME NEW t \in Table, NEW p \in Pids, NEW s \in States \ {"ZOMBIE"},
           t[p].state # "ZOMBIE", t[p].vfork_child = 0 \/ s = "STOPPED"
    PROVE  Calm(t, [t EXCEPT ![p].state = s])
<1>1. PICK r : r = [t[p] EXCEPT !.state = s]
  OBVIOUS
<1>2. CalmPcb(t[p], r)
  BY <1>1 DEF CalmPcb, KinPcb, Table, Pcb
<1>3. [t EXCEPT ![p].state = s] = [t EXCEPT ![p] = r]
  BY <1>1
<1>. QED
  BY <1>2, <1>3, CalmSet

LEMMA AnswerCalm ==
    ASSUME NEW t, Listed(t), NEW pa \in list, t[pa].state # "ZOMBIE", t[pa].vfork_child = 0
    PROVE  Calm(t, AnswerWait(t, pa))
<1>1. PICK r : r = [t[pa] EXCEPT !.state = "READY", !.wait_pid = 0, !.untraced = FALSE]
  OBVIOUS
<1>2. t \in Table /\ pa \in Pids /\ t[pa] \in Pcb
  BY ListedPcb DEF Listed
<1>3. AnswerWait(t, pa) = [t EXCEPT ![pa] = r]
  BY <1>1, <1>2 DEF AnswerWait, Table, Pcb
<1>4. CalmPcb(t[pa], r)
  BY <1>1, <1>2 DEF CalmPcb, KinPcb, Pcb
<1>5. Calm(t, [t EXCEPT ![pa] = r])
  BY ONLY <1>2, <1>4, CalmSet
<1>. QED
  BY ONLY <1>3, <1>5

LEMMA ClearStopCalm ==
    ASSUME NEW t \in Table, NEW c \in Pids
    PROVE  Calm(t, [t EXCEPT ![c].stop = FALSE])
<1>1. PICK r : r = [t[c] EXCEPT !.stop = FALSE]
  OBVIOUS
<1>2. CalmPcb(t[c], r)
  BY <1>1 DEF CalmPcb, KinPcb, Table, Pcb
<1>3. [t EXCEPT ![c].stop = FALSE] = [t EXCEPT ![c] = r]
  BY <1>1
<1>. QED
  BY <1>2, <1>3, CalmSet

LEMMA StopCalm ==
    ASSUME NEW t, Listed(t), NEW c \in list, t[c].state # "ZOMBIE"
    PROVE  Calm(t, Stop(t, c))
<1>0. t \in Table /\ c \in Pids /\ t[c] \in Pcb
  BY ListedPcb DEF Listed
<1>1. CASE t[c].state = "STOPPED"
  BY <1>1, CalmSame DEF Stop
<1>2. CASE t[c].state # "STOPPED"
  <2>1. PICK r : r = [t[c] EXCEPT !.state = "STOPPED", !.stop = TRUE]
    OBVIOUS
  <2>2. r \in Pcb /\ CalmPcb(t[c], r) /\ r.state = "STOPPED"
    <3>1. PICK x \in States, m \in Pcb : x = "STOPPED" /\ m = t[c]
      BY <1>0, StatesFacts
    <3>2. r = [m EXCEPT !.state = x, !.stop = TRUE]
      BY <2>1, <3>1
    <3>. QED
      BY <3>1, <3>2 DEF Pcb, CalmPcb, KinPcb
  <2>3. PICK u : u = [t EXCEPT ![c] = r]
    OBVIOUS
  <2>4. u \in Table /\ Calm(t, u) /\ Listed(u)
    <3>1. u \in Table /\ u[c] = r /\ \A p \in Pids \ {c} : u[p] = t[p]
      BY <1>0, <2>2, <2>3 DEF Table
    <3>2. Listed(u)
      BY <1>0, <2>2, <3>1, StatesFacts DEF Listed
    <3>3. Calm(t, u)
      BY ONLY <1>0, <2>2, <2>3, CalmSet
    <3>. QED
      BY <3>1, <3>2, <3>3
  <2>5. Stop(t, c) = NotifyStoppedParent(u, c)
    <3>1. u = [t EXCEPT ![c].state = "STOPPED", ![c].stop = TRUE]
      BY <2>1, <2>3, <1>0 DEF Table, Pcb
    <3>. QED
      BY <1>2, <3>1 DEF Stop
  <2>6. CASE Stop(t, c) = u
    BY <2>4, <2>6
  <2>7. ASSUME u[c].parent \in list, WaitMatches(u, u[c].parent, c),
               Stop(t, c) = [AnswerWait(u, u[c].parent) EXCEPT ![c].stop = FALSE]
        PROVE  Calm(t, Stop(t, c))
    <3>1. PICK pa \in list : pa = u[c].parent
      BY <2>7
    <3>2. PICK v : v = AnswerWait(u, pa)
      OBVIOUS
    <3>3. u[pa].state = "WAITING" /\ u[pa].vfork_child = 0
      BY <2>7, <3>1 DEF WaitMatches
    <3>4. Calm(u, v) /\ v \in Table
      BY <2>4, <3>2, <3>3, AnswerCalm, AnswerEvolves DEF Evolves
    <3>5. PICK w : w = [v EXCEPT ![c].stop = FALSE]
      OBVIOUS
    <3>6. Calm(v, w)
      BY <1>0, <3>4, <3>5, ClearStopCalm
    <3>7. Calm(t, w)
      BY <2>4, <3>4, <3>6, CalmTransitive
    <3>. QED
      BY <2>7, <3>1, <3>2, <3>5, <3>7
  <2>. QED
    BY <2>5, <2>6, <2>7 DEF NotifyStoppedParent
<1>. QED
  BY <1>1, <1>2

LEMMA SetPendingCalm ==
    ASSUME NEW t \in Table, NEW q \in Pids, NEW P
    PROVE  Calm(t, [t EXCEPT ![q].pending = P])
<1>1. PICK r : r = [t[q] EXCEPT !.pending = P]
  OBVIOUS
<1>2. CalmPcb(t[q], r)
  BY <1>1 DEF CalmPcb, KinPcb, Table, Pcb
<1>3. [t EXCEPT ![q].pending = P] = [t EXCEPT ![q] = r]
  BY <1>1
<1>. QED
  BY <1>2, <1>3, CalmSet

LEMMA SendCalm ==
    ASSUME NEW t, Listed(t), NEW q \in list, NEW sig, sig # "CONT",
           sig = "STOP" => t[q].state # "ZOMBIE"
    PROVE  Calm(t, SignalSend(t, q, sig))
<1>0. t \in Table /\ q \in Pids
  BY ListedPcb DEF Listed
<1>1. CASE sig = "STOP"
  BY <1>1, StopCalm DEF SignalSend
<1>2. CASE sig # "STOP"
  <2>1. PICK P : P = t[q].pending \cup ({sig} \cap Pendable)
    OBVIOUS
  <2>2. SignalSend(t, q, sig) = [t EXCEPT ![q].pending = P]
    BY <1>2, <2>1 DEF SignalSend
  <2>3. Calm(t, [t EXCEPT ![q].pending = P])
    BY ONLY <1>0, SetPendingCalm
  <2>. QED
    BY ONLY <2>2, <2>3
<1>. QED
  BY <1>1, <1>2

-----------------------------------------------------------------------------
(* Calm steps.                                                             *)

CalmStep == Calm(pcb, pcb') /\ list' = list

LEMMA TimerCalm ==
    ASSUME IInv, Family(pcb, list), NEW woken \in SUBSET Pids, Timer(woken) PROVE CalmStep
<1>1. /\ \A q \in Pids : pcb[q] \in Pcb
      /\ runq \subseteq list /\ list \subseteq Pids
  BY DEF IInv, Static, Table
<1>2. ASSUME NEW q \in Pids PROVE CalmPcb(pcb[q], pcb'[q])
  <2>1. CASE q \notin woken
    BY <2>1, CalmPcbSame DEF Timer
  <2>2. CASE q \in woken
    <3>1. q \in list /\ pcb[q].futex = 0
      BY <1>1, <2>2 DEF Timer, Family
    <3>2. pcb[q].state = "SLEEPING"
      BY <2>2, <3>1 DEF Timer
    <3>3. pcb[q].vfork_child = 0
      BY <3>1, <3>2 DEF Family, Held
    <3>4. PICK r : r = [pcb[q] EXCEPT !.state = "READY"]
      OBVIOUS
    <3>5. pcb'[q] = r
      BY <2>2, <3>2, <3>4 DEF Timer
    <3>. QED
      BY <1>1, <3>2, <3>3, <3>4, <3>5 DEF CalmPcb, KinPcb, Pcb
  <2>. QED
    BY <2>1, <2>2
<1>. QED
  BY <1>2 DEF CalmStep, Calm, Timer

LEMMA HandleTrapCalm == ASSUME IInv, Family(pcb, list), HandleTrap PROVE CalmStep
<1>0. pcb \in Table
  BY DEF IInv, Static
<1>1. CASE pcb' = pcb
  BY <1>1, CalmSame DEF CalmStep, HandleTrap
<1>2. CASE /\ current # 0 /\ pcb[current].state = "RUNNING"
           /\ pcb' = [pcb EXCEPT ![current].state = "READY"]
  <2>1. current \in Pids
    BY <1>2 DEF IInv, Dynamic, PidOrNone, Pids
  <2>2. current \in list
    BY <1>2, <2>1, StatesFacts DEF IInv, Static
  <2>3. pcb[current].vfork_child = 0 /\ pcb[current].state # "ZOMBIE"
    BY <1>2, <2>2 DEF Family, Held
  <2>4. "READY" \in States \ {"ZOMBIE"}
    BY DEF States
  <2>5. Calm(pcb, pcb')
    BY ONLY <1>0, <1>2, <2>1, <2>3, <2>4, SetStateCalm
  <2>. QED
    BY <2>5 DEF CalmStep, HandleTrap
<1>. QED
  BY <1>1, <1>2 DEF HandleTrap

LEMMA SleepCalm == ASSUME IInv, Family(pcb, list), Sleep PROVE CalmStep
<1>1. /\ current \in list /\ current \in Pids /\ pcb \in Table
      /\ pcb[current].state = "RUNNING"
  BY Caller DEF Sleep, Listed
<1>2. pcb[current].vfork_child = 0 /\ pcb[current].state # "ZOMBIE"
  BY <1>1 DEF Family, Held
<1>3. "SLEEPING" \in States \ {"ZOMBIE"}
  BY DEF States
<1>4. pcb' = [pcb EXCEPT ![current].state = "SLEEPING"] /\ list' = list
  BY DEF Sleep
<1>5. Calm(pcb, pcb')
  BY ONLY <1>1, <1>2, <1>3, <1>4, SetStateCalm
<1>. QED
  BY <1>4, <1>5 DEF CalmStep

LEMMA WaitFindsNothingCalm ==
    ASSUME IInv, Family(pcb, list), NEW w \in PidOrNone, NEW untraced \in BOOLEAN,
           NEW blocks \in BOOLEAN, WaitFindsNothing(w, untraced, blocks)
    PROVE  CalmStep
<1>1. InCall("wait") \/ InCall("untraced")
  BY DEF WaitFindsNothing
<1>2. /\ current \in list /\ current \in Pids /\ pcb \in Table /\ pcb[current] \in Pcb
      /\ pcb[current].state = "RUNNING"
  BY <1>1, Caller DEF Listed
<1>3. pcb[current].vfork_child = 0
  BY <1>2 DEF Family, Held
<1>4. PICK r : r = [pcb[current] EXCEPT !.state = "WAITING", !.wait_pid = w,
                                        !.untraced = untraced]
  OBVIOUS
<1>5. CalmPcb(pcb[current], r)
  BY <1>2, <1>3, <1>4 DEF CalmPcb, KinPcb, Pcb
<1>6. list' = list /\ (pcb' = pcb \/ pcb' = [pcb EXCEPT ![current] = r])
  <2>1. [pcb EXCEPT ![current].state = "WAITING", ![current].wait_pid = w,
                    ![current].untraced = untraced] = [pcb EXCEPT ![current] = r]
    BY <1>4
  <2>2. /\ list' = list
        /\ \/ pcb' = pcb
           \/ pcb' = [pcb EXCEPT ![current].state = "WAITING", ![current].wait_pid = w,
                                 ![current].untraced = untraced]
    BY WaitFindsNothingSpaces
  <2>. QED
    BY ONLY <2>1, <2>2
<1>7. Calm(pcb, [pcb EXCEPT ![current] = r])
  BY ONLY <1>2, <1>5, CalmSet
<1>. QED
  BY <1>6, <1>7, CalmSame DEF CalmStep

LEMMA SetpgidCalm ==
    ASSUME IInv, NEW q \in Pids, NEW g, Setpgid(q, g) PROVE CalmStep
<1>1. pcb \in Table
  BY DEF IInv, Static
<1>2. PICK r : r = [pcb[q] EXCEPT !.pgid = g]
  OBVIOUS
<1>3. CalmPcb(pcb[q], r)
  BY <1>1, <1>2 DEF CalmPcb, KinPcb, Table, Pcb
<1>4. pcb' = [pcb EXCEPT ![q] = r]
  BY <1>2 DEF Setpgid
<1>5. Calm(pcb, pcb')
  BY ONLY <1>1, <1>3, <1>4, CalmSet, q \in Pids
<1>. QED
  BY <1>5 DEF CalmStep, Setpgid

\* No SIGCONT is on its way.
NoCont ==
    kpc \in {"pgrp", "pgnext"} \/ (kpc = "die" /\ ret = "pgnext") => pgsig.sig # "CONT"

LEMMA KillCalm ==
    ASSUME IInv, NEW q \in Pids, NEW sig \in Signals, Kill(q, sig),
           "cont" \notin Calls, "stopzombie" \notin Calls
    PROVE  CalmStep
<1>1. q \in list /\ Listed(pcb) /\ CallFor(q, sig) \in Calls
  BY StaticListed DEF Kill, InCall, IInv
<1>2. sig # "CONT" /\ (sig = "STOP" => pcb[q].state # "ZOMBIE")
  BY <1>1 DEF CallFor
<1>3. pcb' = pcb \/ pcb' = SignalSend(pcb, q, sig)
  BY DEF Kill
<1>. QED
  BY <1>1, <1>2, <1>3, SendCalm, CalmSame DEF CalmStep, Kill

LEMMA PgrpSendCalm ==
    ASSUME IInv, StopsLiving, NoCont, PgrpSend PROVE CalmStep
<1>1. kpc = "pgrp" /\ arg \in list /\ Listed(pcb)
  BY StaticListed DEF PgrpSend, IInv, Dynamic, KernelStepsSound
<1>2. pgsig.sig # "CONT" /\ (pgsig.sig = "STOP" => pcb[arg].state # "ZOMBIE")
  BY <1>1 DEF NoCont, StopsLiving
<1>3. pcb' = pcb \/ pcb' = SignalSend(pcb, arg, pgsig.sig)
  BY DEF PgrpSend
<1>. QED
  BY <1>1, <1>2, <1>3, SendCalm, CalmSame DEF CalmStep, PgrpSend

LEMMA DispatchSignalCalm == ASSUME IInv, DispatchSignal PROVE CalmStep
<1>1. arg \in list /\ arg \in Pids /\ pcb[arg] \in Pcb /\ pcb[arg].state = "READY"
      /\ Listed(pcb) /\ pcb \in Table
  BY StaticListed, ListedPcb DEF DispatchSignal, IInv, Static, Dynamic, KernelStepsSound
<1>2. PICK P : P = pcb[arg].pending \ {NextSignal(arg)}
  OBVIOUS
<1>3. PICK t : t = [pcb EXCEPT ![arg].pending = P]
  OBVIOUS
<1>4. Calm(pcb, t)
  BY ONLY <1>1, <1>3, SetPendingCalm
<1>5. Listed(t) /\ t[arg].state = "READY"
  <2>1. P \in SUBSET Pendable
    BY <1>1, <1>2 DEF Pcb
  <2>2. PICK m, r : m \in Pcb /\ m = pcb[arg] /\ r = [m EXCEPT !.pending = P]
    BY <1>1
  <2>3. r \in Pcb /\ r.state = "READY"
    BY <1>1, <2>1, <2>2 DEF Pcb
  <2>4. t = [pcb EXCEPT ![arg] = r]
    BY <1>3, <2>2
  <2>5. t \in Table /\ t[arg] = r /\ \A p \in Pids \ {arg} : t[p] = pcb[p]
    BY <1>1, <2>3, <2>4 DEF Table
  <2>. QED
    BY <1>1, <2>3, <2>5, StatesFacts DEF Listed
<1>6. t = [pcb EXCEPT ![arg].pending = @ \ {NextSignal(arg)}]
  BY <1>2, <1>3
<1>7. pcb' = t \/ pcb' = Stop(t, arg)
  BY <1>6 DEF DispatchSignal
<1>8. Calm(pcb, pcb')
  BY <1>1, <1>4, <1>5, <1>7, StopCalm, CalmTransitive
<1>. QED
  BY <1>8 DEF CalmStep, DispatchSignal

-----------------------------------------------------------------------------
(* Releasing the vfork parent, at a death and at an exec.                  *)

Releases(t, v, p) == t[v].vforkvm = TRUE /\ p = t[v].parent /\ t[p].vfork_child = v

LEMMA ReleaseFields ==
    ASSUME NEW t \in Table, NEW v \in Pids, list \subseteq Pids,
           NEW u, u = ReleaseVforkParent(t, v)
    PROVE  \A p \in Pids :
             /\ KinPcb(t[p], u[p]) /\ u[p].futex = t[p].futex /\ u[p].ctid = t[p].ctid
             /\ u[p].vfork_child = IF p \in list /\ Releases(t, v, p) THEN 0
                                   ELSE t[p].vfork_child
             /\ u[p].state = IF p \in list /\ Releases(t, v, p) /\ t[p].state = "WAITING"
                             THEN "READY" ELSE t[p].state
<1>0. t[v].vforkvm \in BOOLEAN
  BY DEF Table, Pcb
<1>1. CASE ~(t[v].vforkvm /\ t[v].parent \in list /\ t[t[v].parent].vfork_child = v)
  <2>1. u = t /\ \A p \in list : ~Releases(t, v, p)
    BY <1>0, <1>1 DEF ReleaseVforkParent, Releases
  <2>. QED
    BY <2>1, KinPcbSame
<1>2. CASE t[v].vforkvm /\ t[v].parent \in list /\ t[t[v].parent].vfork_child = v
  <2>1. PICK pa \in list : pa = t[v].parent
    BY <1>2
  <2>2. PICK s : s = IF t[pa].state = "WAITING" THEN "READY" ELSE t[pa].state
    OBVIOUS
  <2>3. PICK m, r : m \in Pcb /\ m = t[pa] /\ r = [m EXCEPT !.vfork_child = 0, !.state = s]
    BY <2>1 DEF Table
  <2>4. u = [t EXCEPT ![pa] = r]
    BY <1>2, <2>1, <2>2, <2>3 DEF ReleaseVforkParent, Table, Pcb
  <2>5. /\ KinPcb(m, r) /\ r.futex = m.futex /\ r.ctid = m.ctid
        /\ r.vfork_child = 0 /\ r.state = s
    BY <2>3 DEF KinPcb, Pcb
  <2>6. u[pa] = r /\ \A p \in Pids \ {pa} : u[p] = t[p]
    BY <2>1, <2>4 DEF Table
  <2>7. \A p \in Pids : Releases(t, v, p) <=> p = pa
    BY <1>0, <1>2, <2>1 DEF Releases
  <2>8. ASSUME NEW p \in Pids
        PROVE  /\ KinPcb(t[p], u[p]) /\ u[p].futex = t[p].futex /\ u[p].ctid = t[p].ctid
               /\ u[p].vfork_child = IF p \in list /\ Releases(t, v, p) THEN 0
                                     ELSE t[p].vfork_child
               /\ u[p].state = IF p \in list /\ Releases(t, v, p) /\ t[p].state = "WAITING"
                               THEN "READY" ELSE t[p].state
    <3>1. CASE p = pa
      <4>1. u[p] = r /\ t[p] = m /\ p \in list /\ Releases(t, v, p)
        BY <2>1, <2>3, <2>6, <2>7, <3>1
      <4>2. s = IF t[p].state = "WAITING" THEN "READY" ELSE t[p].state
        BY <2>2, <3>1
      <4>. QED
        BY ONLY <4>1, <4>2, <2>5
    <3>2. CASE p # pa
      BY <2>6, <2>7, <3>2, KinPcbSame
    <3>. QED
      BY <3>1, <3>2
  <2>. QED
    BY <2>8
<1>. QED
  BY <1>1, <1>2

\* The released table u: v is dead or lives in a fresh address space.
Released(t, u, v, L) ==
    /\ \A p \in Pids : /\ u[p].thread = FALSE /\ u[p].futex = 0 /\ u[p].ctid = 0
                       /\ u[p].parent = t[p].parent
    /\ \A p \in L \ {v} : /\ u[p].state = "ZOMBIE" <=> t[p].state = "ZOMBIE"
                          /\ u[p].dir = t[p].dir /\ u[p].vforkvm = t[p].vforkvm
    /\ \A p \in L : /\ u[p].vfork_child = IF Releases(t, v, p) THEN 0
                                          ELSE t[p].vfork_child
                    /\ u[p].vfork_child # 0 => u[p].state \in Held
    /\ u[v].state = "ZOMBIE" \/ u[v].vforkvm = FALSE
    /\ u[v].state = "ZOMBIE" \/ \A c \in L \ {v} : u[v].dir # u[c].dir

LEMMA ReleasedFamily ==
    ASSUME NEW t, NEW L \in SUBSET Pids, Family(t, L), NEW v \in L, NEW u,
           Released(t, u, v, L)
    PROVE  Family(u, L) /\ \A p \in L : u[p].vfork_child # v
<1>0. /\ \A p \in Pids : /\ u[p].thread = FALSE /\ u[p].futex = 0 /\ u[p].ctid = 0
                         /\ u[p].parent = t[p].parent
      /\ \A p \in L \ {v} : /\ u[p].state = "ZOMBIE" <=> t[p].state = "ZOMBIE"
                            /\ u[p].dir = t[p].dir /\ u[p].vforkvm = t[p].vforkvm
      /\ \A p \in L : /\ u[p].vfork_child = IF Releases(t, v, p) THEN 0
                                            ELSE t[p].vfork_child
                      /\ u[p].vfork_child # 0 => u[p].state \in Held
      /\ u[v].state = "ZOMBIE" \/ u[v].vforkvm = FALSE
      /\ u[v].state = "ZOMBIE" \/ \A c \in L \ {v} : u[v].dir # u[c].dir
  BY DEF Released
<1>1. v # 0 /\ \A p \in L : u[p].vfork_child # v
  <2>1. \A p \in L : t[p].vfork_child = v => Releases(t, v, p)
    BY DEF Family, Releases, Pids
  <2>. QED
    BY <1>0, <2>1 DEF Pids
<1>2. ASSUME NEW p \in L, u[p].vfork_child # 0
      PROVE  /\ u[p].state \in Held
             /\ u[p].vfork_child \in L
             /\ u[u[p].vfork_child].state # "ZOMBIE"
             /\ u[u[p].vfork_child].parent = p
             /\ u[u[p].vfork_child].vforkvm = TRUE
  <2>1. PICK c : c = t[p].vfork_child
    OBVIOUS
  <2>2. u[p].vfork_child = c /\ c # 0 /\ c # v
    BY <1>0, <1>1, <1>2, <2>1
  <2>3. /\ c \in L \ {v} /\ t[c].state # "ZOMBIE" /\ t[c].parent = p
        /\ t[c].vforkvm = TRUE
    BY <2>1, <2>2 DEF Family
  <2>. QED
    BY <1>0, <1>2, <2>2, <2>3
<1>3. ASSUME NEW c \in L, u[c].state # "ZOMBIE", u[c].vforkvm = TRUE, u[c].parent \in L,
             u[u[c].parent].dir = u[c].dir
      PROVE  u[u[c].parent].vfork_child = c \/ u[u[c].parent].state = "ZOMBIE"
  <2>1. PICK pa \in L : pa = u[c].parent
    BY <1>3
  <2>2. c # v /\ t[c].parent = pa /\ t[c].state # "ZOMBIE" /\ t[c].vforkvm = TRUE
    BY <1>0, <1>3, <2>1
  <2>3. CASE pa = v
    BY <1>0, <1>3, <2>1, <2>2, <2>3
  <2>4. CASE pa # v
    <3>1. t[pa].dir = t[c].dir
      BY <1>0, <1>3, <2>1, <2>2, <2>4
    <3>2. t[pa].vfork_child = c \/ t[pa].state = "ZOMBIE"
      BY <2>1, <2>2, <3>1 DEF Family
    <3>3. t[pa].vfork_child = c => ~Releases(t, v, pa)
      BY <2>2 DEF Releases
    <3>. QED
      BY <1>0, <2>1, <2>4, <3>2, <3>3
  <2>. QED
    BY <2>3, <2>4
<1>4. Family(u, L)
  BY <1>0, <1>2, <1>3 DEF Family
<1>. QED
  BY <1>1, <1>4

LEMMA AfterDeathFamily ==
    ASSUME IInv, Family(pcb, list), NEW v \in list, NEW t, t = AfterDeath(v)
    PROVE  /\ Family(t, list) /\ t[v].state = "ZOMBIE"
           /\ \A p \in list : t[p].vfork_child # v
<1>0. /\ pcb \in Table /\ v \in Pids /\ pcb[v] \in Pcb /\ list \subseteq Pids
      /\ list \in SUBSET Pids
  BY ListedPcb, StaticListed DEF IInv, Static
<1>1. PICK r : r = [pcb[v] EXCEPT !.state = "ZOMBIE", !.pending = {}, !.ctid = 0]
  OBVIOUS
<1>2. r \in Pcb /\ r.state = "ZOMBIE" /\ r.ctid = 0
  <2>1. PICK x \in States, y \in PidOrNone, m \in Pcb : x = "ZOMBIE" /\ y = 0 /\ m = pcb[v]
    BY <1>0, StatesFacts, NoPid
  <2>2. r = [m EXCEPT !.state = x, !.pending = {}, !.ctid = y]
    BY <1>1, <2>1
  <2>. QED
    BY <2>1, <2>2 DEF Pcb
<1>3. /\ r.parent = pcb[v].parent /\ r.dir = pcb[v].dir /\ r.vfork_child = pcb[v].vfork_child
      /\ r.thread = pcb[v].thread /\ r.futex = pcb[v].futex /\ r.vforkvm = pcb[v].vforkvm
  BY <1>0, <1>1 DEF Pcb
<1>4. PICK z : z = [pcb EXCEPT ![v] = r]
  OBVIOUS
<1>5. z \in Table /\ z[v] = r /\ \A p \in Pids \ {v} : z[p] = pcb[p]
  BY <1>0, <1>2, <1>4 DEF Table
\* Nobody waits for its clear_child_tid.
<1>6. t = ReleaseVforkParent(z, v)
  <2>1. pcb[v].ctid = 0
    BY <1>0 DEF Family
  <2>2. WakeFutex(z, 0, pcb[v].dir, FALSE) = [q \in Pids |-> z[q]]
    BY DEF WakeFutex
  <2>3. [q \in Pids |-> z[q]] = z
    BY <1>5 DEF Table
  <2>4. AfterDeath(v) = ReleaseVforkParent(WakeFutex(z, pcb[v].ctid, pcb[v].dir, FALSE), v)
    BY <1>1, <1>4 DEF AfterDeath
  <2>. QED
    BY <2>1, <2>2, <2>3, <2>4
<1>7. ASSUME NEW p \in Pids
      PROVE  /\ KinPcb(z[p], t[p]) /\ t[p].futex = z[p].futex /\ t[p].ctid = z[p].ctid
             /\ t[p].vfork_child = IF p \in list /\ Releases(z, v, p) THEN 0
                                   ELSE z[p].vfork_child
             /\ t[p].state = IF p \in list /\ Releases(z, v, p) /\ z[p].state = "WAITING"
                             THEN "READY" ELSE z[p].state
  BY <1>0, <1>5, <1>6, ReleaseFields
<1>8. \A p \in Pids : /\ z[p].parent = pcb[p].parent /\ z[p].dir = pcb[p].dir
                      /\ z[p].thread = pcb[p].thread /\ z[p].vforkvm = pcb[p].vforkvm
                      /\ z[p].futex = pcb[p].futex
                      /\ z[p].vfork_child = pcb[p].vfork_child
  BY <1>3, <1>5
<1>9. \A p \in Pids : z[p].ctid = 0 /\ pcb[p].thread = FALSE /\ pcb[p].futex = 0
  BY <1>2, <1>5 DEF Family
<1>10. \A p \in Pids : Releases(z, v, p) <=> Releases(pcb, v, p)
  BY <1>0, <1>8 DEF Releases
<1>11. t[v].state = "ZOMBIE"
  BY <1>0, <1>2, <1>5, <1>7
<1>12. \A p \in Pids : /\ t[p].thread = FALSE /\ t[p].futex = 0 /\ t[p].ctid = 0
                       /\ t[p].parent = pcb[p].parent
  BY <1>7, <1>8, <1>9 DEF KinPcb
<1>13. \A p \in list \ {v} : /\ t[p].state = "ZOMBIE" <=> pcb[p].state = "ZOMBIE"
                             /\ t[p].dir = pcb[p].dir /\ t[p].vforkvm = pcb[p].vforkvm
  BY <1>0, <1>5, <1>7 DEF KinPcb
<1>14. ASSUME NEW p \in list
       PROVE  /\ t[p].vfork_child = IF Releases(pcb, v, p) THEN 0 ELSE pcb[p].vfork_child
              /\ t[p].vfork_child # 0 => t[p].state \in Held
  <2>1. t[p].vfork_child = IF Releases(pcb, v, p) THEN 0 ELSE pcb[p].vfork_child
    BY <1>0, <1>7, <1>8, <1>10
  <2>2. ASSUME t[p].vfork_child # 0 PROVE t[p].state \in Held
    <3>1. CASE p = v
      BY <1>11, <3>1 DEF Held
    <3>2. CASE p # v
      <4>1. ~Releases(z, v, p) /\ pcb[p].vfork_child # 0
        BY <1>0, <1>10, <2>1, <2>2
      <4>2. t[p].state = pcb[p].state
        BY <1>0, <1>5, <1>7, <3>2, <4>1
      <4>. QED
        BY <4>1, <4>2 DEF Family
    <3>. QED
      BY <3>1, <3>2
  <2>. QED
    BY <2>1, <2>2
<1>15. Released(pcb, t, v, list)
  BY <1>11, <1>12, <1>13, <1>14 DEF Released
<1>. QED
  BY <1>0, <1>11, <1>15, ReleasedFamily

LEMMA MarkExitedFamily ==
    ASSUME IInv, Family(pcb, list), MarkExited PROVE Family(pcb', list')
<1>0. arg \in list /\ arg \in Pids /\ Listed(pcb) /\ list \in SUBSET Pids
  BY StaticListed DEF MarkExited, IInv, Static, Dynamic, KernelStepsSound
<1>1. PICK t, pa : t = AfterDeath(arg) /\ pa = pcb[arg].parent
  OBVIOUS
<1>2. Family(t, list) /\ t[arg].state = "ZOMBIE" /\ \A p \in list : t[p].vfork_child # arg
  BY <1>0, <1>1, AfterDeathFamily
<1>3. Listed(t) /\ t \in Table
  BY <1>0, <1>1, AfterDeathEvolves, EvolvesListed DEF Listed
<1>4. CASE ~LeavesAtDeath(arg)
  <2>1. list' = list
    BY <1>4 DEF MarkExited
  <2>2. \/ pcb' = t
        \/ /\ pa \in list /\ t[pa].state = "WAITING" /\ t[pa].vfork_child = 0
           /\ pcb' = [t EXCEPT ![pa].state = "READY"]
    BY <1>1, <1>4 DEF MarkExited
  <2>3. "READY" \in States \ {"ZOMBIE"}
    BY DEF States
  <2>4. Calm(t, pcb')
    <3>1. CASE pcb' = t
      BY <3>1, CalmSame
    <3>2. CASE /\ pa \in list /\ t[pa].state = "WAITING" /\ t[pa].vfork_child = 0
               /\ pcb' = [t EXCEPT ![pa].state = "READY"]
      <4>1. pa \in Pids /\ t[pa].state # "ZOMBIE"
        BY <1>0, <3>2
      <4>. QED
        BY ONLY <1>3, <2>3, <3>2, <4>1, SetStateCalm
    <3>. QED
      BY <2>2, <3>1, <3>2
  <2>. QED
    BY ONLY <1>0, <1>2, <2>1, <2>4, CalmFamily
<1>5. CASE LeavesAtDeath(arg)
  <2>1. pcb[arg].thread = FALSE
    BY <1>0 DEF Family
  <2>2. pa \in list /\ t[pa].state = "WAITING" /\ t[pa].vfork_child = 0
    BY <1>1, <1>5, <2>1 DEF LeavesAtDeath, AnswersWait, WaitMatches
  <2>3. PICK u : u = AnswerWait(t, pa)
    OBVIOUS
  <2>4. pcb' = [u EXCEPT ![arg].state = "DEAD"] /\ list' = list \ {arg}
    BY <1>1, <1>5, <2>1, <2>3 DEF MarkExited
  <2>5. Calm(t, u) /\ u \in Table
    BY <1>3, <2>2, <2>3, AnswerCalm, AnswerEvolves DEF Evolves
  <2>6. Family(u, list)
    BY ONLY <1>0, <1>2, <2>5, CalmFamily
  <2>7. \A p \in list \ {arg} : u[p].vfork_child \notin {arg}
    BY <1>0, <1>2, <2>5 DEF Calm, CalmPcb
  <2>8. PICK r : r = [u[arg] EXCEPT !.state = "DEAD"]
    OBVIOUS
  <2>9. r.thread = FALSE /\ r.futex = 0 /\ r.ctid = 0
    <3>1. u[arg] \in Pcb /\ u[arg].thread = FALSE /\ u[arg].futex = 0 /\ u[arg].ctid = 0
      BY <1>0, <2>5, <2>6 DEF Table, Family
    <3>2. r.thread = u[arg].thread /\ r.futex = u[arg].futex /\ r.ctid = u[arg].ctid
      BY <2>8, <3>1 DEF Pcb
    <3>. QED
      BY <3>1, <3>2
  <2>10. pcb'[arg] = r /\ \A p \in Pids \ {arg} : pcb'[p] = u[p]
    BY <1>0, <2>4, <2>5, <2>8 DEF Table
  <2>. QED
    BY <1>0, <2>4, <2>6, <2>7, <2>9, <2>10, LeaveFamily
<1>. QED
  BY <1>4, <1>5

LEMMA ExecFamily ==
    ASSUME IInv, Family(pcb, list), DirsLive, Exec PROVE Family(pcb', list')
<1>1. PICK u : u = ReleaseVforkParent(pcb, current)
  OBVIOUS
<1>2. /\ current \in list /\ current \in Pids /\ pcb[current].state = "RUNNING"
      /\ list' = list /\ \A p \in Pids \ {current} : pcb'[p] = u[p]
      /\ pcb'[current].dir \notin dirs
      /\ pcb'[current].state = "READY"
  BY <1>1, ExecShape
<1>3. /\ pcb'[current].parent = pcb[current].parent
      /\ pcb'[current].thread = pcb[current].thread
      /\ pcb'[current].vforkvm = FALSE
      /\ pcb'[current].vfork_child = u[current].vfork_child
      /\ pcb'[current].futex = u[current].futex
      /\ pcb'[current].ctid = u[current].ctid
  BY <1>1, ExecShape
<1>4. pcb \in Table /\ list \subseteq Pids /\ list \in SUBSET Pids
  BY DEF IInv, Static
<1>5. ASSUME NEW p \in Pids
      PROVE  /\ KinPcb(pcb[p], u[p]) /\ u[p].futex = pcb[p].futex /\ u[p].ctid = pcb[p].ctid
             /\ u[p].vfork_child = IF p \in list /\ Releases(pcb, current, p) THEN 0
                                   ELSE pcb[p].vfork_child
             /\ u[p].state = IF p \in list /\ Releases(pcb, current, p)
                                           /\ pcb[p].state = "WAITING"
                             THEN "READY" ELSE pcb[p].state
  BY <1>1, <1>2, <1>4, ReleaseFields
<1>6. \A p \in Pids : pcb[p].thread = FALSE /\ pcb[p].futex = 0 /\ pcb[p].ctid = 0
  BY DEF Family
<1>7. ASSUME NEW p \in Pids
      PROVE  /\ pcb'[p].thread = FALSE /\ pcb'[p].futex = 0 /\ pcb'[p].ctid = 0
             /\ pcb'[p].parent = pcb[p].parent
  <2>1. CASE p = current
    BY <1>2, <1>3, <1>5, <1>6, <2>1
  <2>2. CASE p # current
    BY <1>2, <1>5, <1>6, <2>2 DEF KinPcb
  <2>. QED
    BY <2>1, <2>2
<1>8. ASSUME NEW p \in list \ {current}
      PROVE  /\ pcb'[p].state = "ZOMBIE" <=> pcb[p].state = "ZOMBIE"
             /\ pcb'[p].dir = pcb[p].dir /\ pcb'[p].vforkvm = pcb[p].vforkvm
  <2>1. p \in Pids /\ pcb'[p] = u[p]
    BY <1>2, <1>4
  <2>. QED
    BY <1>5, <2>1 DEF KinPcb
<1>9. ASSUME NEW p \in list
      PROVE  /\ pcb'[p].vfork_child = IF Releases(pcb, current, p) THEN 0
                                      ELSE pcb[p].vfork_child
             /\ pcb'[p].vfork_child # 0 => pcb'[p].state \in Held
  <2>0. p \in Pids
    BY <1>4
  <2>1. pcb'[p].vfork_child = IF Releases(pcb, current, p) THEN 0 ELSE pcb[p].vfork_child
    <3>1. pcb'[p].vfork_child = u[p].vfork_child
      BY <1>2, <1>3, <2>0
    <3>. QED
      BY <1>5, <2>0, <3>1
  <2>2. ASSUME pcb'[p].vfork_child # 0 PROVE pcb'[p].state \in Held
    <3>1. pcb[p].vfork_child # 0 /\ ~Releases(pcb, current, p)
      BY <2>1, <2>2
    <3>2. pcb[p].state \in Held
      BY <3>1 DEF Family
    <3>3. p # current
      BY <1>2, <3>2 DEF Held
    <3>. QED
      BY <1>2, <1>5, <2>0, <3>1, <3>2, <3>3
  <2>. QED
    BY <2>1, <2>2
<1>10. \A c \in list \ {current} : pcb'[current].dir # pcb'[c].dir
  BY <1>2, <1>8 DEF DirsLive, Allocated
<1>11. PICK w : w = pcb'
  OBVIOUS
<1>12. Released(pcb, w, current, list)
  BY <1>3, <1>7, <1>8, <1>9, <1>10, <1>11 DEF Released
<1>13. Family(w, list)
  BY <1>2, <1>4, <1>12, ReleasedFamily
<1>. QED
  BY <1>2, <1>11, <1>13

\* Nobody is the child of a process that does not exist yet.
Young == \A p \in list : pcb[p].parent < next_pid

LEMMA ListOld == ASSUME IInv PROVE \A p \in list : p \in Pids /\ p < next_pid
BY ConstantsAssumption, StatesFacts DEF IInv, Static, Pids

LEMMA ForkFamily ==
    ASSUME IInv, Family(pcb, list), DirsLive, Young, Fork
    PROVE  Family(pcb', list') /\ Young'
<1>1. PICK n : n = next_pid
  OBVIOUS
<1>2. /\ current \in list /\ current \in Pids /\ n \in Pids /\ n \notin list
      /\ n \notin deferred /\ next_pid' = n + 1 /\ list' = list \cup {n}
      /\ \A p \in Pids \ {n} : pcb'[p] = pcb[p]
      /\ pcb'[n].dir \notin dirs /\ pcb'[n].parent = current
      /\ pcb'[n].vfork_child = 0 /\ pcb'[n].futex = 0 /\ pcb'[n].ctid = 0
  BY <1>1, ForkShape DEF Allocated
<1>3. pcb'[n].thread = pcb[current].thread
  BY <1>1, ForkShape
<1>4. list \subseteq Pids /\ n \in Nat /\ \A p \in list : p < n
  <2>1. list \subseteq Pids /\ \A p \in list : p < n
    BY <1>1, ListOld
  <2>2. n \in Nat
    BY <1>2 DEF Pids
  <2>3. QED
    BY <2>1, <2>2
<1>5. \A p \in Pids : pcb'[p].thread = FALSE /\ pcb'[p].futex = 0 /\ pcb'[p].ctid = 0
  BY <1>2, <1>3 DEF Family
<1>6. \A p \in list : pcb'[p] = pcb[p]
  BY <1>2, <1>4
<1>7. ASSUME NEW p \in list', pcb'[p].vfork_child # 0
      PROVE  /\ pcb'[p].state \in Held
             /\ pcb'[p].vfork_child \in list'
             /\ pcb'[pcb'[p].vfork_child].state # "ZOMBIE"
             /\ pcb'[pcb'[p].vfork_child].parent = p
             /\ pcb'[pcb'[p].vfork_child].vforkvm = TRUE
  <2>1. p \in list /\ pcb[p].vfork_child # 0 /\ pcb[p].vfork_child \in list
    BY <1>2, <1>6, <1>7 DEF Family
  <2>. QED
    BY <1>2, <1>6, <2>1 DEF Family
<1>8. ASSUME NEW c \in list', pcb'[c].state # "ZOMBIE", pcb'[c].vforkvm = TRUE,
             pcb'[c].parent \in list', pcb'[pcb'[c].parent].dir = pcb'[c].dir
      PROVE  \/ pcb'[pcb'[c].parent].vfork_child = c
             \/ pcb'[pcb'[c].parent].state = "ZOMBIE"
  <2>1. CASE c = n
    <3>1. pcb[current].dir = pcb'[n].dir
      BY <1>2, <1>6, <1>8, <2>1
    <3>2. pcb[current].dir \in dirs
      BY <1>2 DEF DirsLive, Allocated
    <3>. QED
      BY <1>2, <3>1, <3>2
  <2>2. CASE c # n
    <3>1. c \in list /\ pcb'[c] = pcb[c] /\ pcb[c].parent < n
      BY <1>1, <1>2, <1>6, <2>2 DEF Young
    <3>2. pcb[c].parent \in list
      BY <1>2, <1>4, <1>8, <3>1
    <3>. QED
      BY <1>6, <1>8, <3>1, <3>2 DEF Family
  <2>. QED
    BY <2>1, <2>2
<1>9. Young'
  <2>1. ASSUME NEW p \in list' PROVE pcb'[p].parent < n + 1
    <3>1. CASE p = n
      BY <1>2, <1>4, <3>1
    <3>2. CASE p # n
      <4>1. p \in list /\ pcb'[p] = pcb[p] /\ pcb[p].parent < n /\ pcb[p].parent \in Nat
        BY <1>1, <1>2, <1>4, <1>6, <3>2 DEF Young, IInv, Static, Table, Pcb, PidOrNone
      <4>. QED
        BY <1>4, <4>1
    <3>. QED
      BY <3>1, <3>2
  <2>. QED
    BY <1>2, <2>1 DEF Young
<1>. QED
  BY <1>5, <1>7, <1>8, <1>9 DEF Family

LEMMA VforkFamily ==
    ASSUME IInv, Family(pcb, list), Young, Vfork
    PROVE  Family(pcb', list') /\ Young'
<1>1. PICK n : n = next_pid
  OBVIOUS
<1>2. /\ current \in list /\ current \in Pids /\ n \in Pids /\ n \notin list
      /\ next_pid' = n + 1 /\ list' = list \cup {n}
      /\ \A p \in Pids \ {n, current} : pcb'[p] = pcb[p]
      /\ pcb'[n].parent = current /\ pcb'[n].state = "RUNNING"
      /\ pcb'[n].vfork_child = 0 /\ pcb'[n].futex = 0 /\ pcb'[n].ctid = 0
  BY <1>1, VforkShape DEF Allocated
<1>3. pcb'[n].thread = pcb[current].thread /\ pcb'[n].vforkvm = TRUE
  BY <1>1, VforkShape
<1>4. /\ KinPcb(pcb[current], pcb'[current])
      /\ pcb[current].vfork_child = 0 /\ pcb'[current].vfork_child = n
      /\ pcb'[current].state = "WAITING"
      /\ pcb'[current].futex = pcb[current].futex
      /\ pcb'[current].ctid = pcb[current].ctid
  BY <1>1, VforkShape
<1>5. list \subseteq Pids /\ n \in Nat /\ (\A p \in list : p < n) /\ n # current
  <2>1. list \subseteq Pids /\ \A p \in list : p < n
    BY <1>1, ListOld
  <2>2. n \in Nat /\ n # current
    BY <1>2 DEF Pids
  <2>3. QED
    BY <2>1, <2>2
<1>6. pcb[current].state = "RUNNING" /\ pcb \in Table
  BY Caller DEF Vfork, Listed
<1>7. ASSUME NEW p \in Pids
      PROVE  pcb'[p].thread = FALSE /\ pcb'[p].futex = 0 /\ pcb'[p].ctid = 0
  <2>1. \A q \in Pids : pcb[q].thread = FALSE /\ pcb[q].futex = 0 /\ pcb[q].ctid = 0
    BY DEF Family
  <2>2. CASE p = n
    BY <1>2, <1>3, <2>1, <2>2
  <2>3. CASE p = current
    BY <1>4, <2>1, <2>3 DEF KinPcb
  <2>4. CASE p \notin {n, current}
    BY <1>2, <2>1, <2>4
  <2>. QED
    BY <2>2, <2>3, <2>4
\* Everybody on the list keeps kin and state, but the caller, who waits.
<1>8. /\ \A p \in list \ {current} : pcb'[p] = pcb[p]
      /\ \A p \in list : KinPcb(pcb[p], pcb'[p])
      /\ \A p \in list : pcb'[p].state = "ZOMBIE" <=> pcb[p].state = "ZOMBIE"
  <2>1. \A p \in list \ {current} : pcb'[p] = pcb[p]
    BY <1>2, <1>5
  <2>2. ASSUME NEW p \in list
        PROVE  /\ KinPcb(pcb[p], pcb'[p])
               /\ pcb'[p].state = "ZOMBIE" <=> pcb[p].state = "ZOMBIE"
    <3>1. CASE p = current
      BY <1>4, <1>6, <3>1
    <3>2. CASE p # current
      BY <2>1, <3>2, KinPcbSame
    <3>. QED
      BY <3>1, <3>2
  <2>. QED
    BY <2>1, <2>2
<1>9. ASSUME NEW p \in list', pcb'[p].vfork_child # 0
      PROVE  /\ pcb'[p].state \in Held
             /\ pcb'[p].vfork_child \in list'
             /\ pcb'[pcb'[p].vfork_child].state # "ZOMBIE"
             /\ pcb'[pcb'[p].vfork_child].parent = p
             /\ pcb'[pcb'[p].vfork_child].vforkvm = TRUE
  <2>1. CASE p = current
    BY <1>2, <1>3, <1>4, <2>1 DEF Held
  <2>2. CASE p # current
    <3>1. p \in list /\ pcb'[p] = pcb[p]
      BY <1>2, <1>8, <1>9, <2>2
    <3>2. PICK c : c = pcb[p].vfork_child
      OBVIOUS
    <3>3. /\ pcb[p].state \in Held /\ c \in list /\ pcb[c].state # "ZOMBIE"
          /\ pcb[c].parent = p /\ pcb[c].vforkvm = TRUE
      BY <1>9, <3>1, <3>2 DEF Family
    <3>4. pcb'[c].state # "ZOMBIE" /\ pcb'[c].parent = p /\ pcb'[c].vforkvm = TRUE
      BY <1>8, <3>3 DEF KinPcb
    <3>. QED
      BY <1>2, <3>1, <3>2, <3>3, <3>4
  <2>. QED
    BY <2>1, <2>2
<1>10. ASSUME NEW c \in list', pcb'[c].state # "ZOMBIE", pcb'[c].vforkvm = TRUE,
              pcb'[c].parent \in list', pcb'[pcb'[c].parent].dir = pcb'[c].dir
       PROVE  \/ pcb'[pcb'[c].parent].vfork_child = c
              \/ pcb'[pcb'[c].parent].state = "ZOMBIE"
  <2>1. CASE c = n
    BY <1>2, <1>4, <2>1
  <2>2. CASE c # n
    <3>1. c \in list /\ KinPcb(pcb[c], pcb'[c]) /\ pcb[c].parent < n
          /\ pcb[c].state # "ZOMBIE"
      BY <1>1, <1>2, <1>8, <1>10, <2>2 DEF Young
    <3>2. PICK pa : pa = pcb[c].parent
      OBVIOUS
    <3>3. pa \in list /\ pcb'[c].parent = pa
      BY <1>2, <1>5, <1>10, <3>1, <3>2 DEF KinPcb
    <3>4. pcb[c].vforkvm = TRUE /\ pcb[pa].dir = pcb[c].dir
      BY <1>8, <1>10, <3>1, <3>3 DEF KinPcb
    <3>5. pcb[pa].vfork_child = c \/ pcb[pa].state = "ZOMBIE"
      BY <3>1, <3>2, <3>3, <3>4 DEF Family
    <3>6. c # 0
      BY <1>5, <3>1 DEF Pids
    <3>7. pa # current
      BY <1>4, <1>6, <3>5, <3>6
    <3>. QED
      BY <1>8, <3>3, <3>5, <3>7
  <2>. QED
    BY <2>1, <2>2
<1>11. Young'
  <2>1. ASSUME NEW p \in list' PROVE pcb'[p].parent < n + 1
    <3>1. CASE p = n
      BY <1>2, <1>5, <3>1
    <3>2. CASE p # n
      <4>1. p \in list /\ pcb[p].parent < n /\ pcb[p].parent \in Nat
        BY <1>1, <1>2, <1>5, <1>6, <3>2 DEF Young, Table, Pcb, PidOrNone
      <4>2. pcb'[p].parent = pcb[p].parent
        BY <1>8, <4>1 DEF KinPcb
      <4>. QED
        BY <1>5, <4>1, <4>2
    <3>. QED
      BY <3>1, <3>2
  <2>. QED
    BY <1>2, <2>1 DEF Young
<1>. QED
  BY <1>7, <1>9, <1>10, <1>11 DEF Family

\* A process is freed that nobody waits for in vfork.
LEMMA FreesFamily ==
    ASSUME IInv, Family(pcb, list), NEW X, NEW t, Frees(X, t), Calm(pcb, t),
           \A x \in X \cap list : pcb[x].state = "ZOMBIE"
    PROVE  Family(pcb', list')
<1>1. list \in SUBSET Pids /\ X \subseteq Pids
  BY DEF IInv, Static, Frees, Allocated
<1>2. Family(t, list)
  BY <1>1, CalmFamily
<1>3. \A p \in list \ X : t[p].vfork_child \notin X
  <2>1. ASSUME NEW p \in list \ X, t[p].vfork_child \in X PROVE FALSE
    <3>1. PICK c : c = t[p].vfork_child
      OBVIOUS
    <3>2. c # 0
      BY <1>1, <2>1, <3>1 DEF Pids
    <3>3. c \in list /\ t[c].state # "ZOMBIE"
      BY <1>2, <3>1, <3>2 DEF Family
    <3>4. pcb[c].state # "ZOMBIE"
      BY <1>1, <3>3 DEF Calm, CalmPcb
    <3>. QED
      BY <2>1, <3>1, <3>3, <3>4
  <2>. QED
    BY <2>1
<1>4. PICK u : u = pcb'
  OBVIOUS
<1>5. \A p \in Pids \ X : u[p] = t[p]
  BY <1>4 DEF Frees
<1>6. \A p \in X : u[p].thread = FALSE /\ u[p].futex = 0 /\ u[p].ctid = 0
  BY <1>1, <1>4 DEF Frees, FreePcb
<1>7. Family(u, list \ X)
  BY ONLY <1>1, <1>2, <1>3, <1>5, <1>6, LeaveFamily
<1>. QED
  BY <1>4, <1>7 DEF Frees

LEMMA FreeingFamily ==
    ASSUME IInv, Family(pcb, list),
           \/ PickIdle \/ Run
           \/ \E w \in PidOrNone, untraced \in BOOLEAN : WaitReports(w, untraced)
    PROVE  Family(pcb', list')
<1>0. /\ pcb \in Table /\ Listed(pcb)
      /\ \A p \in Pids : p \in list => p \notin deferred
      /\ list \subseteq Pids
  BY StatesFacts, StaticListed DEF IInv, Static
<1>1. CASE PickIdle
  <2>1. Reapable(0) \cap list = {}
    BY <1>0 DEF Reapable
  <2>. QED
    BY <1>1, <2>1, PickIdleFrees, CalmSame, FreesFamily
<1>2. CASE Run
  <2>1. arg \in list /\ arg \in Pids /\ pcb[arg].state = "READY"
    BY <1>2 DEF Run, IInv, Static, Dynamic, KernelStepsSound
  <2>2. pcb[arg].vfork_child = 0
    BY <2>1 DEF Family, Held
  <2>3. PICK t : t = [pcb EXCEPT ![arg].state = "RUNNING"]
    OBVIOUS
  <2>4. "RUNNING" \in States \ {"ZOMBIE"} /\ pcb[arg].state # "ZOMBIE"
    BY <2>1 DEF States
  <2>5. Calm(pcb, t)
    BY ONLY <1>0, <2>1, <2>2, <2>3, <2>4, SetStateCalm
  <2>6. Reapable(arg) \cap list = {}
    BY <1>0 DEF Reapable
  <2>7. Frees(Reapable(arg), t)
    BY <1>2, <2>3, RunFrees
  <2>. QED
    BY <2>5, <2>6, <2>7, FreesFamily
<1>3. ASSUME NEW w \in PidOrNone, NEW untraced \in BOOLEAN, WaitReports(w, untraced)
      PROVE  Family(pcb', list')
  <2>1. InCall("wait") \/ InCall("untraced")
    BY <1>3 DEF WaitReports
  <2>2. current \in list /\ current \in Pids /\ pcb[current].state = "RUNNING"
    BY <2>1, Caller
  <2>3. pcb[current].vfork_child = 0
    BY <2>2 DEF Family, Held
  <2>4. PICK c, t, X :
          /\ c \in list
          /\ X = IF pcb[c].state = "ZOMBIE" THEN {c} ELSE {}
          /\ t = IF pcb[c].state = "ZOMBIE" THEN AnswerWait(pcb, current)
                 ELSE [pcb EXCEPT ![c].stop = FALSE]
          /\ Frees(X, t)
    BY <1>3, WaitReportsFrees
  <2>5. Calm(pcb, t)
    <3>1. Calm(pcb, AnswerWait(pcb, current))
      BY <1>0, <2>2, <2>3, AnswerCalm
    <3>2. Calm(pcb, [pcb EXCEPT ![c].stop = FALSE])
      BY <1>0, <2>4, ClearStopCalm
    <3>. QED
      BY <2>4, <3>1, <3>2
  <2>6. \A x \in X \cap list : pcb[x].state = "ZOMBIE"
    BY <2>4
  <2>. QED
    BY <2>4, <2>5, <2>6, FreesFamily
<1>. QED
  BY <1>1, <1>2, <1>3

LEMMA QuietFamily ==
    ASSUME IInv, Family(pcb, list), StopsLiving, NoCont,
           QuietCall \/ Interrupt \/ QuietKernel,
           Calls \cap {"execfail", "stopzombie", "futex", "cont"} = {}
    PROVE  Family(pcb', list') /\ list' \subseteq list
<1>0. list \in SUBSET Pids /\ list \subseteq list
  BY DEF IInv, Static
<1>1. CASE CalmStep
  BY ONLY <1>0, <1>1, Family(pcb, list), CalmFamily DEF CalmStep
<1>2. CASE MarkExited
  <2>1. list' \subseteq list
    BY <1>2 DEF MarkExited
  <2>. QED
    BY <1>2, <2>1, MarkExitedFamily
<1>3. CASE ForkFails \/ Exit \/ FatalFault
  <2>1. pcb' = pcb /\ list' = list
    BY <1>3 DEF ForkFails, Exit, FatalFault
  <2>. QED
    BY <1>1, <2>1, CalmSame DEF CalmStep
<1>4. CASE PgrpNext \/ \E p \in Pids : PickNext(p)
  <2>1. pcb' = pcb /\ list' = list
    BY <1>4 DEF PgrpNext, PickNext
  <2>. QED
    BY <1>1, <2>1, CalmSame DEF CalmStep
<1>5. CASE \E g \in Groups, sig \in Signals : KillPgrp(g, sig)
  <2>1. pcb' = pcb /\ list' = list
    BY <1>5 DEF KillPgrp
  <2>. QED
    BY <1>1, <2>1, CalmSame DEF CalmStep
<1>6. ~ExecFails /\ ~\E a \in Pids : FutexWait(a) \/ \E all \in BOOLEAN : FutexWake(a, all)
  BY DEF ExecFails, FutexWait, FutexWake, InCall
<1>7. CASE QuietCall
  <2>1. CASE Sleep
    BY <1>1, <2>1, SleepCalm
  <2>2. CASE \E w \in PidOrNone, untraced, blocks \in BOOLEAN :
                WaitFindsNothing(w, untraced, blocks)
    BY <1>1, <2>2, WaitFindsNothingCalm
  <2>3. CASE \E q \in Pids, g \in Groups : Setpgid(q, g)
    BY <1>1, <2>3, SetpgidCalm
  <2>4. CASE \E q \in Pids, sig \in Signals : Kill(q, sig)
    BY <1>1, <2>4, KillCalm
  <2>. QED
    BY <1>3, <1>6, <1>7, <2>1, <2>2, <2>3, <2>4 DEF QuietCall
<1>8. CASE Interrupt
  BY <1>1, <1>5, <1>8, TimerCalm DEF Interrupt
<1>9. CASE QuietKernel
  BY <1>1, <1>2, <1>4, <1>9, PgrpSendCalm, HandleTrapCalm, DispatchSignalCalm DEF QuietKernel
<1>. QED
  BY <1>7, <1>8, <1>9

\* next_pid does not fall, and new processes have new parents.
LEMMA YoungKept ==
    ASSUME IInv, Young, list' \subseteq list, next_pid' \in {next_pid, next_pid + 1},
           \A p \in list' : pcb'[p].parent = pcb[p].parent
    PROVE  Young'
<1>1. next_pid \in Nat /\ \A p \in list : pcb[p].parent \in Nat /\ pcb[p].parent < next_pid
  BY ConstantsAssumption DEF Young, IInv, Static, Table, Pcb, PidOrNone
<1>2. ASSUME NEW p \in list' PROVE pcb'[p].parent < next_pid'
  BY <1>1
<1>. QED
  BY <1>2 DEF Young

LEMMA NextPidGrows == ASSUME Next PROVE next_pid' \in {next_pid, next_pid + 1}
<1>1. CASE Syscall
  BY <1>1 DEF Syscall, Fork, ForkFails, Vfork, Exec, ExecFails, Exit, FatalFault, Sleep,
     CloneThread, WaitReports, WaitFindsNothing, FutexWait, FutexWake, Setpgid, Kill, Allocate
<1>2. CASE Interrupt
  BY <1>2 DEF Interrupt, Timer, KillPgrp
<1>3. CASE KernelStep
  BY <1>3 DEF KernelStep, MarkExited, PgrpSend, PgrpNext, HandleTrap, PickIdle,
     DispatchSignal, Run, PickNext
<1>. QED
  BY <1>1, <1>2, <1>3 DEF Next

LEMMA NoContStep == ASSUME IInv, NoCont, Next, "cont" \notin Calls PROVE NoCont'
<1>1. CASE kpc' \notin {"pgrp", "pgnext"} /\ ~(kpc' = "die" /\ ret' = "pgnext")
  BY <1>1 DEF NoCont
<1>2. ASSUME NEW g \in Groups, NEW sig \in Signals, KillPgrp(g, sig) PROVE NoCont'
  <2>1. PICK q \in list : sig = "TERM" \/ CallFor(q, sig) \in Calls
    BY <1>2 DEF KillPgrp, IsFirst
  <2>2. sig # "CONT"
    BY <2>1 DEF CallFor
  <2>. QED
    BY <1>2, <2>2 DEF KillPgrp, NoCont
<1>3. CASE PgrpSend \/ PgrpNext
  <2>1. kpc \in {"pgrp", "pgnext"}
    BY <1>3 DEF PgrpSend, PgrpNext
  <2>2. \/ pgsig' = pgsig
        \/ kpc' = "trap"
    BY <1>3 DEF PgrpSend, PgrpNext, GoTo
  <2>. QED
    BY <1>1, <2>1, <2>2 DEF NoCont
<1>4. CASE MarkExited
  <2>1. kpc' = ret /\ kpc = "die" /\ pgsig' = pgsig /\ ret' = "trap"
    BY <1>4 DEF MarkExited, GoTo
  <2>. QED
    BY <2>1 DEF NoCont, IInv, Dynamic
<1>5. CASE Syscall
  <2>1. kpc' \notin {"pgrp", "pgnext"} /\ (kpc' = "die" => ret' # "pgnext")
    BY <1>5 DEF Syscall, Fork, ForkFails, Vfork, Exec, ExecFails, Exit, FatalFault, Sleep,
       CloneThread, WaitReports, WaitFindsNothing, FutexWait, FutexWake, Setpgid, Kill,
       Die, GoTo
  <2>. QED
    BY <1>1, <2>1
<1>6. CASE \E woken \in SUBSET Pids : Timer(woken)
  <2>1. kpc' \in {"halt", "trap"}
    BY <1>6 DEF Timer, GoTo
  <2>. QED
    BY <1>1, <2>1
<1>7. CASE HandleTrap \/ PickIdle \/ DispatchSignal \/ Run \/ \E p \in Pids : PickNext(p)
  <2>1. kpc' \notin {"pgrp", "pgnext"} /\ (kpc' = "die" => ret' # "pgnext")
    BY <1>7 DEF HandleTrap, PickIdle, DispatchSignal, Run, PickNext, Die, GoTo
  <2>. QED
    BY <1>1, <2>1
<1>. QED
  BY <1>2, <1>3, <1>4, <1>5, <1>6, <1>7 DEF Next, Interrupt, KernelStep

LEMMA NextFamily ==
    ASSUME IInv, Family(pcb, list), Young, StopsLiving, NoCont, DirsLive, Next,
           Calls \cap {"execfail", "execshared", "stopzombie", "thread", "futex", "cont"} = {}
    PROVE  Family(pcb', list') /\ Young'
<1>0. next_pid' \in {next_pid, next_pid + 1} /\ list \subseteq Pids
  BY NextPidGrows DEF IInv, Static
<1>1. CASE QuietCall \/ Interrupt \/ QuietKernel
  <2>1. Family(pcb', list') /\ list' \subseteq list
    BY <1>1, QuietFamily
  <2>2. \A p \in list' : pcb'[p].parent = pcb[p].parent
    BY <1>0, <1>1, <2>1, QuietSpaces DEF SameSpaces, Kin, KinPcb
  <2>. QED
    BY <1>0, <2>1, <2>2, YoungKept
<1>2. CASE \/ PickIdle \/ Run
           \/ \E w \in PidOrNone, untraced \in BOOLEAN : WaitReports(w, untraced)
  <2>1. Family(pcb', list')
    BY <1>2, FreeingFamily
  <2>2. PICK X, t : Frees(X, t)
    BY <1>2, PickIdleFrees, RunFrees, WaitReportsFrees
  <2>3. list' \subseteq list /\ \A p \in list' : pcb'[p].parent = pcb[p].parent
    BY <1>0, <2>2 DEF Frees, Kin, KinPcb
  <2>. QED
    BY <1>0, <2>1, <2>3, YoungKept
<1>3. CASE Exec
  <2>1. PICK u : u = ReleaseVforkParent(pcb, current)
    OBVIOUS
  <2>2. /\ list' = list /\ Kin(pcb, u) /\ \A p \in Pids \ {current} : pcb'[p] = u[p]
    BY <1>3, <2>1, ExecShape
  <2>3. pcb'[current].parent = pcb[current].parent
    BY <1>3, <2>1, ExecShape
  <2>4. \A p \in list' : pcb'[p].parent = pcb[p].parent
    BY <1>0, <2>2, <2>3 DEF Kin, KinPcb
  <2>5. Young'
    BY <1>0, <2>2, <2>4, YoungKept
  <2>. QED
    BY <1>3, <2>5, ExecFamily
<1>4. CASE Fork \/ Vfork
  BY <1>4, ForkFamily, VforkFamily
<1>5. \A faulty \in BOOLEAN : ~CloneThread(faulty)
  BY DEF CloneThread, InCall
<1>6. CASE Syscall
  BY <1>1, <1>2, <1>3, <1>4, <1>5, <1>6 DEF Syscall, QuietCall
<1>7. CASE KernelStep
  BY <1>1, <1>2, <1>7 DEF KernelStep, QuietKernel
<1>. QED
  BY <1>1, <1>6, <1>7 DEF Next

LEMMA InitFamily == Init => Family(pcb, list) /\ Young /\ StopsLiving /\ NoCont /\ DirsLive
<1>. SUFFICES ASSUME Init PROVE Family(pcb, list) /\ Young /\ StopsLiving /\ NoCont /\ DirsLive
  OBVIOUS
<1>1. \A p \in Pids : /\ pcb[p].thread = FALSE /\ pcb[p].futex = 0 /\ pcb[p].ctid = 0
                      /\ pcb[p].vforkvm = FALSE /\ pcb[p].vfork_child = 0
                      /\ pcb[p].parent = 0
  BY DEF Init, FreePcb
<1>2. list = {1} /\ 1 \in Pids /\ next_pid = 2 /\ kpc = "user"
  BY InitDir DEF Init
<1>3. Family(pcb, list) /\ Young
  BY <1>1, <1>2 DEF Family, Young
<1>4. StopsLiving /\ NoCont
  BY <1>2 DEF StopsLiving, NoCont
<1>. QED
  BY <1>3, <1>4, InitDir DEF DirsLive

\* While a vfork child lives in its parent's memory the parent does not run,
\* and a parent that is held has a living child that will release it. It needs
\* programs that do not wake the parent some other way: not by SIGCONT, by a
\* futex address left over from an earlier wait, or by an exec that fails; that
\* do not stop zombies; and that mix vfork neither with threads nor with an
\* exec from an address space others still use (process_create_vfork,
\* process_release_vfork_parent).
THEOREM VforkHolds ==
    ASSUME Calls \cap {"execfail", "execshared", "stopzombie", "thread", "futex", "cont"} = {}
    PROVE  Spec => []VforkSound
<1>. DEFINE Inv == Family(pcb, list) /\ Young /\ StopsLiving /\ NoCont /\ DirsLive
<1>1. Init => Inv
  BY InitFamily
<1>2. IInv /\ Inv /\ [Next]_vars => Inv'
  <2>1. ASSUME Inv, UNCHANGED vars PROVE Inv'
    <3>1. Family(pcb, list)' /\ Young'
      BY <2>1 DEF vars, Young, Family
    <3>2. StopsLiving' /\ NoCont' /\ DirsLive'
      BY <2>1 DEF vars, StopsLiving, NoCont, DirsLive, Allocated
    <3>. QED
      BY <3>1, <3>2
  <2>2. ASSUME IInv, Inv, Next PROVE Inv'
    <3>1. Family(pcb', list') /\ Young'
      BY <2>2, NextFamily
    <3>2. StopsLiving' /\ NoCont' /\ DirsLive'
      BY <2>2, StopsLivingStep, NoContStep, DirsLiveStep
    <3>3. Family(pcb, list)'
      BY <3>1 DEF Family
    <3>. QED
      BY <3>1, <3>2, <3>3
  <2>. QED
    BY <2>1, <2>2
<1>3. IInv /\ Inv => VforkSound
  BY FamilySound
<1>. QED
  BY <1>1, <1>2, <1>3, Invariance, PTL DEF Spec

=============================================================================
