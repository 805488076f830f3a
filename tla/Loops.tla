-------------------------------- MODULE Loops --------------------------------
(***************************************************************************)
(* Loops: induction on sets of numbers, and the values a loop goes through *)
(* when each step is a function of the value before it.  The models write  *)
(* a loop as a recursive function; that such a function exists is what the *)
(* proofs about it begin with.  Then what division does to sums.           *)
(***************************************************************************)
EXTENDS Integers, WellFoundedInduction, TLAPS

LEMMA LeastNumber ==
    ASSUME NEW S \in SUBSET Nat, S # {}
    PROVE  \E m \in S : \A y \in S : m <= y
<1>1. IsWellFoundedOn(OpToRel(<, Nat), Nat)
  BY NatLessThanWellFounded
<1>2. PICK m \in S : \A y \in S : ~(<<y, m>> \in OpToRel(<, Nat))
  BY <1>1, WFMin
<1>3. \A y \in S : y \in Nat /\ m \in Nat /\ ~(y < m)
  BY <1>2 DEF OpToRel
<1>. QED
  BY <1>3

\* Induction from 0 to n.
LEMMA UpTo ==
    ASSUME NEW n \in Nat, NEW S, 0 \in S, \A i \in 1 .. n : i - 1 \in S => i \in S
    PROVE  0 .. n \subseteq S
<1>. SUFFICES ASSUME NEW k \in 0 .. n, k \notin S PROVE FALSE
  OBVIOUS
<1>. DEFINE Out == {i \in 0 .. n : i \notin S}
<1>1. Out \in SUBSET Nat /\ Out # {}
  OBVIOUS
<1>2. PICK m \in Out : \A y \in Out : m <= y
  <2>. HIDE DEF Out
  <2>. QED
    BY <1>1, LeastNumber
<1>3. m # 0 /\ m \in 1 .. n /\ m - 1 \in 0 .. n /\ ~(m <= m - 1)
  OBVIOUS
<1>4. m - 1 \in S
  BY <1>2, <1>3
<1>. QED
  BY <1>3, <1>4

\* A loop that starts with a and goes from one value to the next by G.
IsLoop(f, X, a, n, G) ==
    /\ f \in [0 .. n -> X] /\ f[0] = a
    /\ \A i \in 1 .. n : f[i] = G[<<f[i - 1], i>>]

LEMMA Iterates ==
    ASSUME NEW X, NEW a \in X, NEW n \in Nat, NEW G \in [X \X (1 .. n) -> X]
    PROVE  \E f : IsLoop(f, X, a, n, G)
<1>. DEFINE Upto(k, f) == /\ f \in [0 .. k -> X] /\ f[0] = a
                          /\ \A i \in 1 .. k : f[i] = G[<<f[i - 1], i>>]
            S == {k \in 0 .. n : \E f : Upto(k, f)}
<1>1. 0 \in S
  <2>1. PICK f : f = [i \in 0 .. 0 |-> a]
    OBVIOUS
  <2>2. Upto(0, f)
    BY <2>1
  <2>3. 0 \in 0 .. n
    OBVIOUS
  <2>. QED
    BY <2>2, <2>3
<1>2. ASSUME NEW k \in 1 .. n, k - 1 \in S PROVE k \in S
  <2>1. PICK f : Upto(k - 1, f)
    BY <1>2
  <2>2. PICK x \in X : x = G[<<f[k - 1], k>>]
    BY <2>1
  <2>3. PICK g : g = [i \in 0 .. k |-> IF i = k THEN x ELSE f[i]]
    OBVIOUS
  <2>4. g \in [0 .. k -> X] /\ g[0] = a
    BY <2>1, <2>2, <2>3
  <2>5. ASSUME NEW i \in 1 .. k PROVE g[i] = G[<<g[i - 1], i>>]
    <3>0. i - 1 \in 0 .. k /\ i - 1 # k
      OBVIOUS
    <3>1. i - 1 \in 0 .. k - 1 /\ g[i - 1] = f[i - 1]
      BY <2>3, <3>0
    <3>2. CASE i = k
      <4>1. g[k] = x
        BY <2>3
      <4>. QED
        BY <2>2, <3>1, <3>2, <4>1
    <3>3. CASE i # k
      <4>1. i \in 1 .. k - 1 /\ g[i] = f[i]
        BY <2>3, <3>3
      <4>. QED
        BY <2>1, <3>1, <4>1
    <3>. QED
      BY <3>2, <3>3
  <2>6. Upto(k, g)
    BY <2>4, <2>5
  <2>. QED
    BY <2>6
<1>3. n \in S
  <2>. HIDE DEF S
  <2>. QED
    BY <1>1, <1>2, UpTo
<1>. QED
  BY <1>3 DEF IsLoop

-----------------------------------------------------------------------------
(* Loops over from .. to - 1.                                              *)

LEMMA FromTo ==
    ASSUME NEW from \in Int, NEW to \in Int, from < to, NEW S, from - 1 \in S,
           \A v \in from .. to - 1 : v - 1 \in S => v \in S
    PROVE  from - 1 .. to - 1 \subseteq S
<1>. DEFINE n == to - from
            T == {k \in 0 .. n : from - 1 + k \in S}
<1>1. n \in Nat /\ 0 \in T
  OBVIOUS
<1>2. ASSUME NEW k \in 1 .. n, k - 1 \in T PROVE k \in T
  <2>1. PICK v : v = from - 1 + k
    OBVIOUS
  <2>2. v \in from .. to - 1 /\ v - 1 = from - 1 + (k - 1)
    BY <2>1
  <2>. QED
    BY <1>2, <2>1, <2>2
<1>3. 0 .. n \subseteq T
  <2>. HIDE DEF n, T
  <2>. QED
    BY ONLY <1>1, <1>2, UpTo
<1>4. ASSUME NEW v \in from - 1 .. to - 1 PROVE v \in S
  <2>1. v - (from - 1) \in 0 .. n /\ from - 1 + (v - (from - 1)) = v
    OBVIOUS
  <2>. QED
    BY SMTT(30), <1>3, <2>1
<1>. QED
  BY <1>4

\* f[v] is what the steps from .. v make of a.
IsRun(f, X, a, from, to, G) ==
    /\ f \in [from - 1 .. to - 1 -> X] /\ f[from - 1] = a
    /\ \A v \in from .. to - 1 : f[v] = G[<<f[v - 1], v>>]

LEMMA Runs ==
    ASSUME NEW X, NEW a \in X, NEW from \in Int, NEW to \in Int, from < to,
           NEW G \in [X \X (from .. to - 1) -> X]
    PROVE  \E f : IsRun(f, X, a, from, to, G)
<1>1. PICK n, k : n = to - from /\ k = from - 1
  OBVIOUS
<1>2. n \in Nat /\ k \in Int /\ \A i \in 1 .. n : k + i \in from .. to - 1
  BY <1>1
<1>3. PICK H : H = [z \in X \X (1 .. n) |-> G[<<z[1], k + z[2]>>]]
  OBVIOUS
<1>4. H \in [X \X (1 .. n) -> X]
  BY <1>2, <1>3
<1>5. \E g : IsLoop(g, X, a, n, H)
  BY ONLY a \in X, <1>2, <1>4, Iterates
<1>6. PICK g : g \in [0 .. n -> X] /\ g[0] = a /\ \A i \in 1 .. n : g[i] = H[<<g[i - 1], i>>]
  BY <1>5 DEF IsLoop
<1>7. PICK f : f = [v \in from - 1 .. to - 1 |-> g[v - k]]
  OBVIOUS
<1>8. \A v \in from - 1 .. to - 1 : v - k \in 0 .. n
  BY <1>1
<1>9. f \in [from - 1 .. to - 1 -> X] /\ f[from - 1] = a
  <2>1. from - 1 \in from - 1 .. to - 1 /\ (from - 1) - k = 0
    BY <1>1
  <2>. QED
    BY <1>6, <1>7, <1>8, <2>1
<1>10. ASSUME NEW v \in from .. to - 1 PROVE f[v] = G[<<f[v - 1], v>>]
  <2>1. PICK i : i = v - k
    OBVIOUS
  <2>2. /\ i \in 1 .. n /\ i - 1 \in 0 .. n /\ k + i = v /\ (v - 1) - k = i - 1
        /\ v \in from - 1 .. to - 1 /\ v - 1 \in from - 1 .. to - 1
    BY <1>1, <2>1
  <2>3. f[v] = g[i] /\ f[v - 1] = g[i - 1]
    BY <1>7, <2>1, <2>2
  <2>4. g[i] = H[<<g[i - 1], i>>] /\ g[i - 1] \in X
    BY <1>6, <2>2
  <2>5. H[<<g[i - 1], i>>] = G[<<g[i - 1], k + i>>]
    BY <1>3, <2>2, <2>4
  <2>. QED
    BY <2>2, <2>3, <2>4, <2>5
<1>. QED
  BY <1>9, <1>10 DEF IsRun

-----------------------------------------------------------------------------
(* Division.                                                               *)

LEMMA DivMod ==
    ASSUME NEW a \in Int, NEW n \in Nat \ {0}
    PROVE  a % n \in 0 .. n - 1 /\ a \div n \in Int /\ a = n * (a \div n) + (a % n)
OBVIOUS

LEMMA Quot ==
    ASSUME NEW n \in Nat \ {0}, NEW p \in Int, NEW q \in Int, p < q
    PROVE n * p + n <= n * q
<1>1. PICK d \in Nat : q = p + 1 + d
  <2>1. q - p - 1 \in Nat /\ q = p + 1 + (q - p - 1)
    OBVIOUS
  <2>. QED
  BY <2>1
<1>2. n * q = n * p + n + n * d /\ n * d \in Nat
  BY <1>1
<1>3. n * d >= 0
  BY <1>2
<1>. QED
  BY <1>2, <1>3

LEMMA Unique ==
    ASSUME NEW n \in Nat \ {0}, NEW p \in Int, NEW q \in Int, NEW r \in 0 .. n - 1, NEW s \in 0 .. n - 1,
           n * p + r = n * q + s
    PROVE p = q /\ r = s
<1>1. n * p \in Int /\ n * q \in Int
  OBVIOUS
<1>2. ~(p < q)
  <2>1. ASSUME p < q PROVE n * p + n <= n * q
     BY <2>1, Quot
  <2>. QED
  BY <1>1, <2>1
<1>3. ~(q < p)
  <2>1. ASSUME q < p PROVE n * q + n <= n * p
     BY <2>1, Quot
  <2>. QED
  BY <1>1, <2>1
<1>. QED
  BY <1>1, <1>2, <1>3

LEMMA ModOf ==
    ASSUME NEW n \in Nat \ {0}, NEW q \in Int, NEW r \in 0 .. n - 1
    PROVE (n * q + r) % n = r /\ (n * q + r) \div n = q
<1>1. n * q + r \in Int
  OBVIOUS
<1>2. PICK a \in Int : a = n * q + r
  BY <1>1
<1>3. a % n \in 0 .. n - 1 /\ a \div n \in Int /\ n * (a \div n) + (a % n) = n * q + r
  BY <1>2, DivMod
<1>. QED
  BY ONLY <1>2, <1>3, Unique, n \in Nat \ {0}, q \in Int, r \in 0 .. n - 1
=============================================================================
