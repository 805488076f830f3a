----------------------------- MODULE MemoryProofs -----------------------------
(***************************************************************************)
(* Proofs about the kernel's memory: the heap (Heap), for every size of    *)
(* the heap, of headers and of pages, and any number of allocations; and   *)
(* the memory of user programs (UserMemory), for every number of frames,   *)
(* directories, tasks and programs.                                        *)
(*                                                                         *)
(* What a loop computes is proved by induction on sets: the indexes for    *)
(* which a claim holds are all of them (UpTo, FromTo of Loops).            *)
(***************************************************************************)
EXTENDS Heap, UserMemory, Loops, FiniteSetTheorems, SequenceTheorems

-----------------------------------------------------------------------------
(* Sequences of blocks.                                                    *)

Block == [at : Nat, size : Nat, free : BOOLEAN]
End(b) == b.at + HDR + b.size

\* The blocks of s cover from .. to without a gap or an overlap.
Chain(s, from, to) ==
    /\ s \in Seq(Block)
    /\ s = <<>> => from = to
    /\ s # <<>> => s[1].at = from /\ End(s[Len(s)]) = to
    /\ \A i \in 1 .. Len(s) - 1 : s[i + 1].at = End(s[i])
NoPair(s) == \A i \in 1 .. Len(s) - 1 : ~(s[i].free /\ s[i + 1].free)
Elements(s) == {s[i] : i \in DOMAIN s}

LEMMA EndNat == ASSUME NEW b \in Block PROVE End(b) \in Nat /\ End(b) > b.at
BY HeapAssumption DEF Block, End

LEMMA ConcatIndex ==
    ASSUME NEW s \in Seq(Block), NEW t \in Seq(Block)
    PROVE  /\ s \o t \in Seq(Block) /\ Len(s \o t) = Len(s) + Len(t)
           /\ \A i \in 1 .. Len(s) : (s \o t)[i] = s[i]
           /\ \A i \in 1 .. Len(t) : (s \o t)[Len(s) + i] = t[i]
           /\ Len(s) \in Nat /\ Len(t) \in Nat
OBVIOUS

LEMMA ConcatElements ==
    ASSUME NEW s \in Seq(Block), NEW t \in Seq(Block)
    PROVE  Elements(s \o t) = Elements(s) \cup Elements(t)
<1>1. DOMAIN s = 1 .. Len(s) /\ DOMAIN t = 1 .. Len(t) /\ DOMAIN (s \o t) = 1 .. Len(s \o t)
  OBVIOUS
<1>2. PICK u : u = s \o t
  OBVIOUS
<1>3. ASSUME NEW i \in 1 .. Len(u) PROVE u[i] \in Elements(s) \cup Elements(t)
  <2>1. CASE i <= Len(s)
    BY SMTT(30), <1>1, <1>2, <2>1, ConcatIndex DEF Elements
  <2>2. CASE i > Len(s)
    <3>1. i - Len(s) \in 1 .. Len(t) /\ u[i] = t[i - Len(s)]
      BY <1>2, <2>2, ConcatIndex
    <3>. QED
      BY <1>1, <3>1 DEF Elements
  <2>. QED
    BY <2>1, <2>2, ConcatIndex
<1>4. ASSUME NEW i \in 1 .. Len(s) PROVE s[i] \in Elements(u)
  BY SMTT(30), <1>1, <1>2, ConcatIndex DEF Elements
<1>5. ASSUME NEW i \in 1 .. Len(t) PROVE t[i] \in Elements(u)
  <2>1. Len(s) + i \in 1 .. Len(u) /\ u[Len(s) + i] = t[i]
    BY <1>2, ConcatIndex
  <2>. QED
    BY <1>1, <1>2, <2>1 DEF Elements
<1>6. Elements(u) \subseteq Elements(s) \cup Elements(t)
  BY <1>1, <1>2, <1>3 DEF Elements
<1>7. Elements(s) \subseteq Elements(u) /\ Elements(t) \subseteq Elements(u)
  BY <1>1, <1>4, <1>5 DEF Elements
<1>. QED
  BY <1>2, <1>6, <1>7

LEMMA ConcatChain ==
    ASSUME NEW s, NEW t, NEW a, NEW b, NEW c, Chain(s, a, b), Chain(t, b, c)
    PROVE  Chain(s \o t, a, c)
<1>1. PICK u : u = s \o t
  OBVIOUS
<1>2. /\ u \in Seq(Block) /\ Len(u) = Len(s) + Len(t) /\ Len(s) \in Nat /\ Len(t) \in Nat
      /\ \A i \in 1 .. Len(s) : u[i] = s[i]
      /\ \A i \in 1 .. Len(t) : u[Len(s) + i] = t[i]
  BY <1>1, ConcatIndex DEF Chain
<1>3. CASE s = <<>>
  BY <1>1, <1>3 DEF Chain
<1>4. CASE t = <<>>
  BY <1>1, <1>4 DEF Chain
<1>5. CASE s # <<>> /\ t # <<>>
  <2>1. Len(s) > 0 /\ Len(t) > 0
    BY <1>5 DEF Chain
  <2>2. u # <<>> /\ u[1].at = a /\ u[Len(u)] = t[Len(t)]
    BY SMTT(30), <1>2, <1>5, <2>1 DEF Chain
  <2>3. ASSUME NEW i \in 1 .. Len(u) - 1 PROVE u[i + 1].at = End(u[i])
    <3>1. CASE i < Len(s)
      <4>1. i \in 1 .. Len(s) - 1 /\ u[i] = s[i] /\ u[i + 1] = s[i + 1]
        BY <1>2, <3>1
      <4>. QED
        BY <4>1 DEF Chain
    <3>2. CASE i = Len(s)
      <4>1. u[i] = s[Len(s)] /\ u[i + 1] = t[1]
        BY <1>2, <2>1, <3>2
      <4>. QED
        BY <1>5, <4>1 DEF Chain
    <3>3. CASE i > Len(s)
      <4>0. PICK j : j = i - Len(s)
        OBVIOUS
      <4>1. j \in 1 .. Len(t) - 1 /\ i = Len(s) + j
        BY <1>2, <3>3, <4>0
      <4>2. u[i] = t[j] /\ u[i + 1] = t[j + 1]
        BY <1>2, <4>1
      <4>. QED
        BY <4>1, <4>2 DEF Chain
    <3>. QED
      BY <1>2, <3>1, <3>2, <3>3
  <2>. QED
    BY <1>1, <1>2, <1>5, <2>2, <2>3 DEF Chain
<1>. QED
  BY <1>3, <1>4, <1>5

LEMMA ConcatNoPair ==
    ASSUME NEW s \in Seq(Block), NEW t \in Seq(Block), NoPair(s), NoPair(t),
           s # <<>> /\ t # <<>> => ~(s[Len(s)].free /\ t[1].free)
    PROVE  NoPair(s \o t)
<1>1. PICK u : u = s \o t
  OBVIOUS
<1>2. /\ u \in Seq(Block) /\ Len(u) = Len(s) + Len(t) /\ Len(s) \in Nat /\ Len(t) \in Nat
      /\ \A i \in 1 .. Len(s) : u[i] = s[i]
      /\ \A i \in 1 .. Len(t) : u[Len(s) + i] = t[i]
  BY <1>1, ConcatIndex
<1>3. ASSUME NEW i \in 1 .. Len(u) - 1 PROVE ~(u[i].free /\ u[i + 1].free)
  <2>1. CASE i < Len(s)
    <3>1. i \in 1 .. Len(s) - 1 /\ u[i] = s[i] /\ u[i + 1] = s[i + 1]
      BY <1>2, <2>1
    <3>. QED
      BY <3>1 DEF NoPair
  <2>2. CASE i = Len(s)
    <3>1. Len(s) > 0 /\ Len(t) > 0 /\ u[i] = s[Len(s)] /\ u[i + 1] = t[1]
      BY <1>2, <2>2
    <3>. QED
      BY <3>1
  <2>3. CASE i > Len(s)
    <3>0. PICK j : j = i - Len(s)
      OBVIOUS
    <3>1. j \in 1 .. Len(t) - 1 /\ i = Len(s) + j
      BY <1>2, <2>3, <3>0
    <3>2. u[i] = t[j] /\ u[i + 1] = t[j + 1]
      BY <1>2, <3>1
    <3>. QED
      BY <3>1, <3>2 DEF NoPair
  <2>. QED
    BY <1>2, <2>1, <2>2, <2>3
<1>. QED
  BY <1>1, <1>3 DEF NoPair

\* What stands before and after the i-th block.
Left(s, i)  == SubSeq(s, 1, i - 1)
Right(s, i) == SubSeq(s, i + 1, Len(s))

LEMMA CutIndex ==
    ASSUME NEW s \in Seq(Block), NEW i \in 1 .. Len(s)
    PROVE  /\ Left(s, i) \in Seq(Block) /\ Len(Left(s, i)) = i - 1
           /\ \A j \in 1 .. i - 1 : Left(s, i)[j] = s[j]
           /\ Right(s, i) \in Seq(Block) /\ Len(Right(s, i)) = Len(s) - i
           /\ \A j \in 1 .. Len(s) - i : Right(s, i)[j] = s[i + j]
           /\ s[i] \in Block /\ Len(s) \in Nat
<1>1. Len(s) \in Nat /\ s[i] \in Block /\ \A j \in 1 .. Len(s) : s[j] \in Block
  OBVIOUS
<1>2. /\ Left(s, i) \in Seq(Block) /\ Len(Left(s, i)) = i - 1
      /\ \A j \in 1 .. i - 1 : Left(s, i)[j] = s[j]
  <2>1. CASE i = 1
    BY <1>1, <2>1, SubSeqProperties DEF Left
  <2>2. CASE i # 1
    BY <1>1, <2>2, SubSeqProperties DEF Left
  <2>. QED
    BY <2>1, <2>2
<1>3. /\ Right(s, i) \in Seq(Block) /\ Len(Right(s, i)) = Len(s) - i
      /\ \A j \in 1 .. Len(s) - i : Right(s, i)[j] = s[i + j]
  <2>1. CASE i = Len(s)
    BY <1>1, <2>1, SubSeqProperties DEF Right
  <2>2. CASE i # Len(s)
    BY <1>1, <2>2, SubSeqProperties DEF Right
  <2>. QED
    BY <2>1, <2>2
<1>. QED
  BY <1>1, <1>2, <1>3

LEMMA CutElements ==
    ASSUME NEW s \in Seq(Block), NEW i \in 1 .. Len(s)
    PROVE  Elements(s) = Elements(Left(s, i)) \cup {s[i]} \cup Elements(Right(s, i))
<1>1. PICK l, r : l = Left(s, i) /\ r = Right(s, i)
  OBVIOUS
<1>2. /\ DOMAIN s = 1 .. Len(s) /\ DOMAIN l = 1 .. i - 1 /\ DOMAIN r = 1 .. Len(s) - i
      /\ Len(s) \in Nat
      /\ \A j \in 1 .. i - 1 : l[j] = s[j]
      /\ \A j \in 1 .. Len(s) - i : r[j] = s[i + j]
  <2>1. /\ l \in Seq(Block) /\ Len(l) = i - 1 /\ r \in Seq(Block) /\ Len(r) = Len(s) - i
        /\ Len(s) \in Nat
        /\ \A j \in 1 .. i - 1 : l[j] = s[j]
        /\ \A j \in 1 .. Len(s) - i : r[j] = s[i + j]
    BY <1>1, CutIndex
  <2>2. DOMAIN s = 1 .. Len(s) /\ DOMAIN l = 1 .. Len(l) /\ DOMAIN r = 1 .. Len(r)
    BY <2>1
  <2>. QED
    BY <2>1, <2>2
<1>3. ASSUME NEW j \in 1 .. Len(s) PROVE s[j] \in Elements(l) \cup {s[i]} \cup Elements(r)
  <2>1. CASE j < i
    <3>1. j \in 1 .. i - 1
      BY <1>2, <2>1
    <3>. QED
      BY <1>2, <3>1 DEF Elements
  <2>2. CASE j > i
    <3>0. PICK k : k = j - i
      OBVIOUS
    <3>1. k \in 1 .. Len(s) - i /\ j = i + k
      BY <1>2, <2>2, <3>0
    <3>. QED
      BY <1>2, <3>1 DEF Elements
  <2>. QED
    BY <1>2, <2>1, <2>2
<1>4. Elements(s) \subseteq Elements(l) \cup {s[i]} \cup Elements(r)
  BY <1>2, <1>3 DEF Elements
<1>5. ASSUME NEW j \in 1 .. i - 1 PROVE l[j] \in Elements(s)
  <2>1. j \in 1 .. Len(s)
    BY <1>2
  <2>. QED
    BY <1>2, <2>1 DEF Elements
<1>6. ASSUME NEW j \in 1 .. Len(s) - i PROVE r[j] \in Elements(s)
  <2>1. i + j \in 1 .. Len(s)
    BY <1>2
  <2>. QED
    BY <1>2, <2>1 DEF Elements
<1>7. Elements(l) \subseteq Elements(s)
  BY <1>2, <1>5 DEF Elements
<1>8. Elements(r) \subseteq Elements(s)
  BY <1>2, <1>6 DEF Elements
<1>9. s[i] \in Elements(s)
  BY <1>2 DEF Elements
<1>. QED
  BY <1>1, <1>4, <1>7, <1>8, <1>9

LEMMA CutChain ==
    ASSUME NEW s, NEW a, NEW b, Chain(s, a, b), NEW i \in 1 .. Len(s)
    PROVE  Chain(Left(s, i), a, s[i].at) /\ Chain(Right(s, i), End(s[i]), b)
<1>1. s \in Seq(Block) /\ s # <<>> /\ Len(s) \in Nat /\ s[1].at = a /\ End(s[Len(s)]) = b
  BY DEF Chain
<1>2. \A j \in 1 .. Len(s) - 1 : s[j + 1].at = End(s[j])
  BY DEF Chain
<1>3. PICK l, r : l = Left(s, i) /\ r = Right(s, i)
  OBVIOUS
<1>4. /\ l \in Seq(Block) /\ Len(l) = i - 1
      /\ \A j \in 1 .. i - 1 : l[j] = s[j]
      /\ r \in Seq(Block) /\ Len(r) = Len(s) - i
      /\ \A j \in 1 .. Len(s) - i : r[j] = s[i + j]
  BY <1>1, <1>3, CutIndex
<1>5. Chain(l, a, s[i].at)
  <2>1. CASE i = 1
    <3>1. l = <<>>
      BY <1>4, <2>1
    <3>. QED
      BY <1>1, <1>4, <2>1, <3>1 DEF Chain
  <2>2. CASE i # 1
    <3>1. l # <<>> /\ l[1] = s[1] /\ l[Len(l)] = s[i - 1] /\ i - 1 \in 1 .. Len(s) - 1
      BY <1>1, <1>4, <2>2
    <3>2. End(s[i - 1]) = s[i].at
      BY <1>2, <3>1
    <3>3. ASSUME NEW j \in 1 .. Len(l) - 1 PROVE l[j + 1].at = End(l[j])
      <4>1. j \in 1 .. Len(s) - 1 /\ l[j] = s[j] /\ l[j + 1] = s[j + 1]
        BY <1>1, <1>4
      <4>. QED
        BY <1>2, <4>1
    <3>. QED
      BY <1>1, <1>4, <3>1, <3>2, <3>3 DEF Chain
  <2>. QED
    BY <2>1, <2>2
<1>6. Chain(r, End(s[i]), b)
  <2>1. CASE i = Len(s)
    <3>1. r = <<>>
      BY <1>1, <1>4, <2>1
    <3>. QED
      BY <1>1, <1>4, <2>1, <3>1 DEF Chain
  <2>2. CASE i # Len(s)
    <3>0. /\ i \in 1 .. Len(s) - 1 /\ 1 \in 1 .. Len(s) - i
          /\ Len(s) - i \in 1 .. Len(s) - i /\ i + (Len(s) - i) = Len(s)
      BY <1>1, <2>2
    <3>1. r # <<>> /\ r[1] = s[i + 1] /\ r[Len(r)] = s[Len(s)]
      <4>1. r # <<>>
        BY <1>4, <3>0
      <4>2. r[1] = s[i + 1]
        BY <1>4, <3>0
      <4>3. r[Len(s) - i] = s[i + (Len(s) - i)]
        BY <1>4, <3>0
      <4>. QED
        BY <1>4, <3>0, <4>1, <4>2, <4>3
    <3>2. s[i + 1].at = End(s[i])
      BY <1>2, <3>0
    <3>3. ASSUME NEW j \in 1 .. Len(r) - 1 PROVE r[j + 1].at = End(r[j])
      <4>0. PICK k : k = i + j
        OBVIOUS
      <4>1. k \in 1 .. Len(s) - 1 /\ r[j] = s[k] /\ r[j + 1] = s[k + 1]
        BY <1>1, <1>4, <4>0
      <4>. QED
        BY <1>2, <4>1
    <3>. QED
      BY <1>1, <1>4, <3>1, <3>2, <3>3 DEF Chain
  <2>. QED
    BY <2>1, <2>2
<1>. QED
  BY <1>3, <1>5, <1>6

LEMMA CutNoPair ==
    ASSUME NEW s \in Seq(Block), NoPair(s), NEW i \in 1 .. Len(s)
    PROVE  NoPair(Left(s, i)) /\ NoPair(Right(s, i))
<1>1. PICK l, r : l = Left(s, i) /\ r = Right(s, i)
  OBVIOUS
<1>2. /\ Len(s) \in Nat
      /\ l \in Seq(Block) /\ Len(l) = i - 1
      /\ \A j \in 1 .. i - 1 : l[j] = s[j]
      /\ r \in Seq(Block) /\ Len(r) = Len(s) - i
      /\ \A j \in 1 .. Len(s) - i : r[j] = s[i + j]
  BY <1>1, CutIndex
<1>3. ASSUME NEW j \in 1 .. Len(l) - 1 PROVE ~(l[j].free /\ l[j + 1].free)
  <2>1. j \in 1 .. Len(s) - 1 /\ l[j] = s[j] /\ l[j + 1] = s[j + 1]
    BY <1>2
  <2>. QED
    BY <2>1 DEF NoPair
<1>4. ASSUME NEW j \in 1 .. Len(r) - 1 PROVE ~(r[j].free /\ r[j + 1].free)
  <2>0. PICK k : k = i + j
    OBVIOUS
  <2>1. /\ k \in 1 .. Len(s) - 1 /\ j \in 1 .. Len(s) - i /\ j + 1 \in 1 .. Len(s) - i
        /\ i + (j + 1) = k + 1
    BY <1>2, <2>0
  <2>2. r[j] = s[k] /\ r[j + 1] = s[k + 1]
    BY <1>2, <2>0, <2>1
  <2>. QED
    BY <2>1, <2>2 DEF NoPair
<1>. QED
  BY <1>1, <1>3, <1>4 DEF NoPair

\* In a chain a block ends before the next ones begin.
LEMMA Ordered ==
    ASSUME NEW s, NEW a, NEW b, Chain(s, a, b),
           NEW i \in 1 .. Len(s), NEW j \in 1 .. Len(s), i < j
    PROVE  End(s[i]) <= s[j].at
<1>1. s \in Seq(Block) /\ Len(s) \in Nat /\ i \in Nat /\ j \in Nat
  BY DEF Chain
<1>2. ASSUME NEW k \in 1 .. Len(s) PROVE s[k] \in Block /\ s[k].at \in Nat
  <2>1. s[k] \in Block
    BY <1>1
  <2>. QED
    BY <2>1 DEF Block
<1>. DEFINE n == j - i - 1
            S == {k \in 0 .. n : End(s[i]) <= s[i + k + 1].at}
<1>3. n \in Nat
  BY <1>1
<1>4. 0 \in S
  <2>1. i \in 1 .. Len(s) - 1 /\ i + 0 + 1 = i + 1
    BY <1>1
  <2>2. End(s[i]) = s[i + 1].at
    BY <2>1 DEF Chain
  <2>. QED
    BY <1>1, <1>2, <2>1, <2>2
<1>5. ASSUME NEW k \in 1 .. n, k - 1 \in S PROVE k \in S
  <2>0. PICK q : q = i + k
    OBVIOUS
  <2>1. q \in 1 .. Len(s) - 1 /\ q = i + (k - 1) + 1 /\ i + k + 1 = q + 1 /\ q \in 1 .. Len(s)
    BY <1>1, <2>0
  <2>2. s[q + 1].at = End(s[q]) /\ End(s[i]) <= s[q].at
    BY <1>5, <2>1 DEF Chain
  <2>3. End(s[q]) \in Nat /\ End(s[q]) > s[q].at /\ End(s[i]) \in Nat
    BY <1>2, <2>1, EndNat
  <2>4. End(s[i]) <= s[q + 1].at
    BY <1>2, <2>1, <2>2, <2>3
  <2>. QED
    BY <2>1, <2>4
<1>6. 0 .. n \subseteq S
  <2>. HIDE DEF n, S
  <2>. QED
    BY ONLY <1>3, <1>4, <1>5, UpTo
<1>7. n \in 0 .. n /\ i + n + 1 = j
  BY <1>1
<1>. QED
  BY <1>6, <1>7

LEMMA OneBlock ==
    ASSUME NEW b \in Block
    PROVE  Chain(<<b>>, b.at, End(b)) /\ NoPair(<<b>>) /\ Elements(<<b>>) = {b}
<1>1. <<b>> \in Seq(Block) /\ Len(<<b>>) = 1 /\ <<b>>[1] = b /\ DOMAIN <<b>> = {1} /\ <<b>> # <<>>
  OBVIOUS
<1>. QED
  BY <1>1 DEF Chain, NoPair, Elements

LEMMA TwoBlocks ==
    ASSUME NEW b \in Block, NEW c \in Block, End(b) = c.at, ~(b.free /\ c.free)
    PROVE  Chain(<<b, c>>, b.at, End(c)) /\ NoPair(<<b, c>>) /\ Elements(<<b, c>>) = {b, c}
<1>1. PICK s : s = <<b, c>>
  OBVIOUS
<1>2. s \in Seq(Block) /\ Len(s) = 2 /\ s[1] = b /\ s[2] = c /\ DOMAIN s = {1, 2} /\ s # <<>>
  BY <1>1
<1>3. 1 .. Len(s) - 1 = {1}
  BY <1>2
<1>4. Chain(s, b.at, End(c))
  BY <1>2, <1>3 DEF Chain
<1>5. NoPair(s)
  BY <1>2, <1>3 DEF NoPair
<1>6. Elements(s) = {b, c}
  BY <1>2 DEF Elements
<1>. QED
  BY <1>1, <1>4, <1>5, <1>6

-----------------------------------------------------------------------------
(* kheap_alloc.                                                            *)

LEMMA WholePages ==
    ASSUME NEW x \in Nat
    PROVE  PageAlign(x) \in Nat /\ PageAlign(x) >= x
<1>1. PAGE \in Nat /\ PAGE > 0
  BY HeapAssumption
<1>2. PICK y : y = x + PAGE - 1
  OBVIOUS
<1>3. y \in Nat
  BY <1>1, <1>2
<1>4. PICK q, r : q = y \div PAGE /\ r = y % PAGE
  OBVIOUS
<1>5. q \in Int /\ r \in 0 .. PAGE - 1 /\ y = PAGE * q + r
  BY <1>1, <1>3, <1>4
<1>6. PICK z : z = PAGE * q
  OBVIOUS
<1>7. z \in Int /\ q * PAGE = z /\ y = z + r
  BY <1>1, <1>5, <1>6
<1>8. z >= x
  BY <1>1, <1>2, <1>5, <1>7
<1>. QED
  BY <1>2, <1>4, <1>7, <1>8 DEF PageAlign

\* What is before an aligned payload is nothing or enough for a block.
LEMMA NoSmallGap ==
    ASSUME NEW b \in Block, NEW align \in BOOLEAN
    PROVE  /\ PayloadAt(b, align) \in Nat /\ Before(b, align) \in Nat
           /\ PayloadAt(b, align) = b.at + HDR + Before(b, align)
           /\ Before(b, align) = 0 \/ Before(b, align) >= HDR + MIN
<1>1. b.at \in Nat /\ HDR \in Nat /\ MIN \in Nat /\ PAGE \in Nat /\ PAGE >= HDR + MIN
  BY HeapAssumption DEF Block
<1>2. PICK raw, up : raw = b.at + HDR /\ up = PageAlign(raw)
  OBVIOUS
<1>3. raw \in Nat /\ up \in Nat /\ up >= raw
  BY <1>1, <1>2, WholePages
<1>4. PayloadAt(b, align) = IF ~align THEN raw
                            ELSE IF up - raw # 0 /\ up - raw < HDR + MIN THEN up + PAGE ELSE up
  BY <1>2 DEF PayloadAt
<1>5. PICK at : at = PayloadAt(b, align)
  OBVIOUS
<1>6. at \in Nat /\ (at - raw = 0 \/ at - raw >= HDR + MIN)
  BY <1>1, <1>3, <1>4, <1>5
<1>7. Before(b, align) = at - raw
  BY <1>1, <1>2, <1>5, <1>6 DEF Before
<1>. QED
  BY <1>1, <1>2, <1>5, <1>6, <1>7

LEMMA SplitSound ==
    ASSUME NEW b \in Block, NEW n \in Nat, NEW align \in BOOLEAN, Fits(b, n, align)
    PROVE  /\ Chain(Split(b, n, align), b.at, End(b)) /\ NoPair(Split(b, n, align))
           /\ Split(b, n, align) # <<>>
           /\ \E u \in Elements(Split(b, n, align)) :
                /\ u.at = PayloadAt(b, align) - HDR /\ u.size >= n /\ ~u.free
                /\ \A x \in Elements(Split(b, n, align)) : x = u \/ x.free
<1>1. /\ b.at \in Nat /\ b.size \in Nat /\ HDR \in Nat \ {0} /\ MIN \in Nat \ {0}
  BY HeapAssumption DEF Block
<1>2. PICK p, gap, rest : /\ p = PayloadAt(b, align) /\ gap = Before(b, align)
                          /\ rest = After(b, n, align)
  OBVIOUS
<1>3. p \in Nat /\ gap \in Nat /\ p = b.at + HDR + gap /\ (gap = 0 \/ gap >= HDR + MIN)
  BY <1>2, NoSmallGap
<1>4. rest \in Nat /\ p + n + rest = b.at + HDR + b.size
  BY <1>1, <1>2, <1>3 DEF Fits, After, UsedBytes
<1>5. PICK first, used, whole, last :
        /\ first = [at |-> b.at, size |-> gap - HDR, free |-> TRUE]
        /\ used = [at |-> p - HDR, size |-> n, free |-> FALSE]
        /\ whole = [at |-> p - HDR, size |-> n + rest, free |-> FALSE]
        /\ last = [at |-> p - HDR + HDR + n, size |-> rest - HDR, free |-> TRUE]
  OBVIOUS
<1>6. PICK before, taken : /\ before = (IF gap >= HDR + MIN THEN <<first>> ELSE <<>>)
                           /\ taken = (IF rest >= HDR + MIN THEN <<used, last>> ELSE <<whole>>)
  OBVIOUS
<1>7. Split(b, n, align) = before \o taken
  BY <1>2, <1>5, <1>6 DEF Split
<1>8. p - HDR \in Nat /\ p - HDR = b.at + gap
  BY <1>1, <1>3
<1>9. /\ Chain(before, b.at, p - HDR) /\ NoPair(before)
      /\ \A x \in Elements(before) : x.free
  <2>1. CASE gap >= HDR + MIN
    <3>1. gap - HDR \in Nat
      BY <1>1, <1>3, <2>1
    <3>2. first \in Block
      BY <1>1, <1>5, <3>1 DEF Block
    <3>3. first.at = b.at /\ first.free /\ End(first) = p - HDR
      BY <1>1, <1>3, <1>5, <3>1 DEF End
    <3>4. before = <<first>>
      BY <1>6, <2>1
    <3>. QED
      BY <3>2, <3>3, <3>4, OneBlock
  <2>2. CASE gap = 0
    <3>1. before = <<>>
      BY <1>1, <1>6, <2>2
    <3>2. <<>> \in Seq(Block) /\ Len(<<>>) = 0 /\ DOMAIN <<>> = {}
      OBVIOUS
    <3>3. Chain(<<>>, b.at, p - HDR)
      BY <1>1, <1>8, <2>2, <3>2 DEF Chain
    <3>. QED
      BY <3>1, <3>2, <3>3 DEF NoPair, Elements
  <2>. QED
    BY <1>3, <2>1, <2>2
<1>10. \E u \in Elements(taken) :
        /\ u.at = p - HDR /\ u.size >= n /\ ~u.free /\ taken[1] = u /\ taken # <<>>
        /\ \A x \in Elements(taken) : x = u \/ x.free
        /\ Chain(taken, p - HDR, End(b)) /\ NoPair(taken)
  <2>1. CASE rest >= HDR + MIN
    <3>1. rest - HDR \in Nat /\ p - HDR + HDR + n = p + n
      BY <1>1, <1>3, <1>4, <2>1
    <3>2. used \in Block /\ last \in Block
      BY <1>3, <1>5, <1>8, <3>1 DEF Block
    <3>3. /\ used.at = p - HDR /\ End(used) = last.at /\ used.size = n /\ used.free = FALSE
          /\ last.free = TRUE /\ End(last) = End(b)
      BY <1>1, <1>3, <1>4, <1>5, <3>1 DEF End
    <3>4. taken = <<used, last>>
      BY <1>6, <2>1
    <3>5. Chain(taken, p - HDR, End(b)) /\ NoPair(taken) /\ Elements(taken) = {used, last}
      BY <3>2, <3>3, <3>4, TwoBlocks
    <3>6. taken[1] = used /\ taken # <<>>
      BY <3>4
    <3>. QED
      BY <3>3, <3>5, <3>6
  <2>2. CASE ~(rest >= HDR + MIN)
    <3>1. n + rest \in Nat /\ n + rest >= n
      BY <1>4
    <3>2. whole \in Block
      BY <1>5, <1>8, <3>1 DEF Block
    <3>3. /\ whole.at = p - HDR /\ End(whole) = End(b) /\ whole.size >= n /\ whole.free = FALSE
      BY <1>1, <1>3, <1>4, <1>5, <3>1 DEF End
    <3>4. taken = <<whole>>
      BY <1>6, <2>2
    <3>5. Chain(taken, p - HDR, End(b)) /\ NoPair(taken) /\ Elements(taken) = {whole}
      BY <3>2, <3>3, <3>4, OneBlock
    <3>6. taken[1] = whole /\ taken # <<>>
      BY <3>4
    <3>. QED
      BY <3>3, <3>5, <3>6
  <2>. QED
    BY <2>1, <2>2
<1>11. PICK u \in Elements(taken) :
        /\ u.at = p - HDR /\ u.size >= n /\ ~u.free /\ taken[1] = u /\ taken # <<>>
        /\ \A x \in Elements(taken) : x = u \/ x.free
        /\ Chain(taken, p - HDR, End(b)) /\ NoPair(taken)
  BY <1>10
<1>12. before \in Seq(Block) /\ taken \in Seq(Block)
  BY <1>9, <1>11 DEF Chain
<1>13. Elements(before \o taken) = Elements(before) \cup Elements(taken)
  BY <1>12, ConcatElements
<1>14. Chain(before \o taken, b.at, End(b))
  BY <1>9, <1>11, ConcatChain
<1>15. NoPair(before \o taken)
  BY <1>9, <1>11, <1>12, ConcatNoPair
<1>16. before \o taken # <<>>
  BY <1>11, <1>12
<1>. QED
  BY <1>2, <1>7, <1>9, <1>11, <1>13, <1>14, <1>15, <1>16

\* A free block gives way to blocks that cover the same addresses.
LEMMA ReplaceSound ==
    ASSUME NEW s, NEW a, NEW b, Chain(s, a, b), NoPair(s), NEW i \in 1 .. Len(s), s[i].free,
           NEW t, Chain(t, s[i].at, End(s[i])), NoPair(t), t # <<>>
    PROVE  /\ Chain(Left(s, i) \o t \o Right(s, i), a, b)
           /\ NoPair(Left(s, i) \o t \o Right(s, i))
           /\ Elements(Left(s, i) \o t \o Right(s, i))
                = Elements(Left(s, i)) \cup Elements(t) \cup Elements(Right(s, i))
<1>1. PICK l, r, c : l = Left(s, i) /\ r = Right(s, i) /\ c = l \o t
  OBVIOUS
<1>2. s \in Seq(Block) /\ t \in Seq(Block) /\ Len(s) \in Nat
  BY DEF Chain
<1>3. /\ l \in Seq(Block) /\ Len(l) = i - 1 /\ r \in Seq(Block) /\ Len(r) = Len(s) - i
      /\ \A j \in 1 .. i - 1 : l[j] = s[j]
      /\ \A j \in 1 .. Len(s) - i : r[j] = s[i + j]
  BY <1>1, <1>2, CutIndex
<1>4. Chain(l, a, s[i].at) /\ Chain(r, End(s[i]), b) /\ NoPair(l) /\ NoPair(r)
  BY <1>1, <1>2, CutChain, CutNoPair
<1>5. l # <<>> => ~l[Len(l)].free
  <2>1. SUFFICES ASSUME l # <<>> PROVE ~l[Len(l)].free
    OBVIOUS
  <2>2. i - 1 \in 1 .. Len(s) - 1 /\ i - 1 \in 1 .. i - 1 /\ (i - 1) + 1 = i
    BY <1>2, <1>3, <2>1
  <2>3. ~(s[i - 1].free /\ s[i - 1 + 1].free)
    BY <2>2 DEF NoPair
  <2>. QED
    BY <1>3, <2>2, <2>3
<1>6. r # <<>> => ~r[1].free
  <2>1. SUFFICES ASSUME r # <<>> PROVE ~r[1].free
    OBVIOUS
  <2>2. i \in 1 .. Len(s) - 1 /\ 1 \in 1 .. Len(s) - i
    BY <1>2, <1>3, <2>1
  <2>3. ~(s[i].free /\ s[i + 1].free)
    BY <2>2 DEF NoPair
  <2>. QED
    BY <1>3, <2>2, <2>3
<1>7. /\ Chain(c, a, End(s[i])) /\ NoPair(c) /\ c \in Seq(Block)
      /\ Elements(c) = Elements(l) \cup Elements(t)
  <2>1. Chain(c, a, End(s[i]))
    BY <1>1, <1>4, ConcatChain
  <2>2. NoPair(c)
    BY <1>1, <1>2, <1>3, <1>4, <1>5, ConcatNoPair
  <2>3. c \in Seq(Block) /\ Elements(c) = Elements(l) \cup Elements(t)
    BY <1>1, <1>2, <1>3, ConcatElements
  <2>. QED
    BY <2>1, <2>2, <2>3
<1>8. Chain(c \o r, a, b)
  BY <1>4, <1>7, ConcatChain
<1>9. NoPair(c \o r)
  BY <1>3, <1>4, <1>6, <1>7, ConcatNoPair
<1>10. Elements(c \o r) = Elements(l) \cup Elements(t) \cup Elements(r)
  BY <1>3, <1>7, ConcatElements
<1>. QED
  BY <1>1, <1>8, <1>9, <1>10

\* The inductive invariant of the heap.
HeapInv ==
    /\ Chain(blocks, START, START + HEAP_SIZE)
    /\ NoPair(blocks)
    /\ \A p \in DOMAIN live :
        /\ p \in Nat
        /\ \E x \in Elements(blocks) : x.at = p - HDR /\ ~x.free /\ x.size >= live[p]
    /\ \A x \in Elements(blocks) : ~x.free => x.at + HDR \in DOMAIN live

LEMMA AllocKeeps ==
    ASSUME HeapInv, NEW n \in AllocSizes, NEW align \in BOOLEAN, Alloc(n, align)
    PROVE  HeapInv'
<1>1. PICK i \in FirstFit(n, align) :
        /\ blocks' = SubSeq(blocks, 1, i - 1) \o Split(blocks[i], n, align)
                     \o SubSeq(blocks, i + 1, Len(blocks))
        /\ live' = [q \in DOMAIN live \cup {PayloadAt(blocks[i], align)} |->
                       IF q = PayloadAt(blocks[i], align) THEN n ELSE live[q]]
  BY DEF Alloc
<1>2. blocks \in Seq(Block) /\ Len(blocks) \in Nat /\ DOMAIN blocks = 1 .. Len(blocks)
  BY DEF HeapInv, Chain
<1>3. i \in 1 .. Len(blocks) /\ Fits(blocks[i], n, align)
  BY <1>2 DEF FirstFit
<1>4. PICK b, p, t, l, r : /\ b = blocks[i] /\ p = PayloadAt(b, align)
                           /\ t = Split(b, n, align)
                           /\ l = Left(blocks, i) /\ r = Right(blocks, i)
  OBVIOUS
<1>5. b \in Block /\ b.free /\ n \in Nat
  BY <1>2, <1>3, <1>4, HeapAssumption DEF Fits
<1>6. /\ Chain(t, b.at, End(b)) /\ NoPair(t) /\ t # <<>>
      /\ \E u \in Elements(t) : /\ u.at = p - HDR /\ u.size >= n /\ ~u.free
                                /\ \A x \in Elements(t) : x = u \/ x.free
  BY <1>3, <1>4, <1>5, SplitSound
<1>7. blocks' = l \o t \o r
  BY <1>1, <1>4 DEF Left, Right
<1>8. /\ Chain(blocks', START, START + HEAP_SIZE) /\ NoPair(blocks')
      /\ Elements(blocks') = Elements(l) \cup Elements(t) \cup Elements(r)
  BY <1>3, <1>4, <1>5, <1>6, <1>7, ReplaceSound DEF HeapInv
<1>9. Elements(blocks) = Elements(l) \cup {b} \cup Elements(r)
  BY <1>2, <1>3, <1>4, CutElements
<1>10. p \in Nat /\ HDR \in Nat
  BY <1>4, <1>5, NoSmallGap, HeapAssumption
<1>11. DOMAIN live' = DOMAIN live \cup {p} /\ live'[p] = n
       /\ \A q \in DOMAIN live : q # p => live'[q] = live[q]
  BY <1>1, <1>4
<1>12. ASSUME NEW q \in DOMAIN live'
       PROVE  /\ q \in Nat
              /\ \E x \in Elements(blocks') : x.at = q - HDR /\ ~x.free /\ x.size >= live'[q]
  <2>1. CASE q = p
    BY <1>6, <1>8, <1>10, <1>11, <2>1
  <2>2. CASE q # p
    <3>1. q \in DOMAIN live /\ q \in Nat /\ live'[q] = live[q]
      BY <1>11, <2>2 DEF HeapInv
    <3>2. PICK x \in Elements(blocks) : x.at = q - HDR /\ ~x.free /\ x.size >= live[q]
      BY <3>1 DEF HeapInv
    <3>3. x \in Elements(blocks')
      BY <1>5, <1>8, <1>9, <3>2
    <3>. QED
      BY <3>1, <3>2, <3>3
  <2>. QED
    BY <2>1, <2>2
<1>13. ASSUME NEW x \in Elements(blocks'), ~x.free PROVE x.at + HDR \in DOMAIN live'
  <2>1. CASE x \in Elements(t)
    <3>1. x.at = p - HDR
      BY <1>6, <1>13, <2>1
    <3>. QED
      BY <1>10, <1>11, <3>1
  <2>2. CASE x \notin Elements(t)
    BY <1>8, <1>9, <1>11, <1>13, <2>2 DEF HeapInv
  <2>. QED
    BY <2>1, <2>2
<1>. QED
  BY <1>8, <1>12, <1>13 DEF HeapInv

-----------------------------------------------------------------------------
(* kheap_free.                                                             *)

UsedIn(s) == {x \in Elements(s) : ~x.free}

\* One round of the loop of Coalesced.
Join(done, x) ==
    IF done # <<>> /\ done[Len(done)].free /\ x.free
    THEN [done EXCEPT ![Len(done)].size = @ + HDR + x.size]
    ELSE Append(done, x)

LEMMA Grown ==
    ASSUME NEW z \in Block, NEW x \in Block
    PROVE  LET y == [z EXCEPT !.size = @ + HDR + x.size] IN
           y \in Block /\ y.at = z.at /\ y.free = z.free /\ y.size = z.size + HDR + x.size
<1>1. PICK k : k = z.size + HDR + x.size
  OBVIOUS
<1>2. k \in Nat
  BY <1>1, HeapAssumption DEF Block
<1>3. [z EXCEPT !.size = k] = [at |-> z.at, size |-> k, free |-> z.free]
  BY DEF Block
<1>4. z.at \in Nat /\ z.free \in BOOLEAN
  BY DEF Block
<1>. QED
  BY <1>1, <1>2, <1>3, <1>4 DEF Block

LEMMA JoinBlocks ==
    ASSUME NEW s \in Seq(Block), NEW x \in Block
    PROVE  Join(s, x) \in Seq(Block)
<1>1. CASE s # <<>> /\ s[Len(s)].free /\ x.free
  <2>1. Len(s) \in 1 .. Len(s) /\ s[Len(s)] \in Block
    BY <1>1
  <2>2. [s[Len(s)] EXCEPT !.size = @ + HDR + x.size] \in Block
    BY <2>1, Grown
  <2>. QED
    BY <1>1, <2>1, <2>2 DEF Join
<1>2. CASE ~(s # <<>> /\ s[Len(s)].free /\ x.free)
  BY <1>2, AppendProperties DEF Join
<1>. QED
  BY <1>1, <1>2

LEMMA JoinSound ==
    ASSUME NEW s, NEW a, NEW x \in Block, Chain(s, a, x.at), NoPair(s)
    PROVE  /\ Chain(Join(s, x), a, End(x)) /\ NoPair(Join(s, x))
           /\ UsedIn(Join(s, x)) = UsedIn(s) \cup UsedIn(<<x>>)
<1>1. s \in Seq(Block) /\ Len(s) \in Nat /\ DOMAIN s = 1 .. Len(s)
  BY DEF Chain
<1>2. Chain(<<x>>, x.at, End(x)) /\ NoPair(<<x>>) /\ Elements(<<x>>) = {x} /\ <<x>> \in Seq(Block)
  BY OneBlock
<1>3. CASE s # <<>> /\ s[Len(s)].free /\ x.free
  <2>1. PICK n, z, y, r : /\ n = Len(s) /\ z = s[n]
                          /\ y = [z EXCEPT !.size = @ + HDR + x.size] /\ r = [s EXCEPT ![n] = y]
    OBVIOUS
  <2>2. n \in 1 .. Len(s) /\ z \in Block /\ z.free /\ End(z) = x.at
    BY <1>1, <1>3, <2>1 DEF Chain
  <2>3. y \in Block /\ y.at = z.at /\ y.free = z.free /\ End(y) = End(x)
    <3>1. y \in Block /\ y.at = z.at /\ y.free = z.free /\ y.size = z.size + HDR + x.size
      BY <2>1, <2>2, Grown
    <3>2. z.at \in Nat /\ z.size \in Nat /\ x.size \in Nat /\ HDR \in Nat
      BY <2>2, HeapAssumption DEF Block
    <3>. QED
      BY SMTT(30), <2>2, <3>1, <3>2 DEF End
  <2>4. /\ r \in Seq(Block) /\ Len(r) = n /\ r[n] = y /\ DOMAIN r = 1 .. n
        /\ \A j \in 1 .. n : j # n => r[j] = s[j]
    BY <1>1, <2>1, <2>2, <2>3
  <2>5. r = Join(s, x)
    BY <1>3, <2>1 DEF Join
  <2>6. ASSUME NEW j \in 1 .. n - 1
        PROVE  r[j + 1].at = End(r[j]) /\ ~(r[j].free /\ r[j + 1].free)
    <3>1. r[j] = s[j] /\ j \in 1 .. Len(s) - 1
      BY <1>1, <2>1, <2>4
    <3>2. r[j + 1].at = s[j + 1].at /\ r[j + 1].free = s[j + 1].free
      <4>1. CASE j + 1 = n
        BY <2>1, <2>3, <2>4, <4>1
      <4>2. CASE j + 1 # n
        BY <1>1, <2>1, <2>4, <4>2
      <4>. QED
        BY <4>1, <4>2
    <3>3. s[j + 1].at = End(s[j]) /\ ~(s[j].free /\ s[j + 1].free)
      BY <3>1 DEF Chain, NoPair
    <3>. QED
      BY <3>1, <3>2, <3>3
  <2>7. r # <<>> /\ r[1].at = a
    <3>1. s[1].at = a /\ r # <<>>
      BY <1>3, <2>2, <2>4 DEF Chain
    <3>2. CASE n = 1
      BY <2>1, <2>3, <2>4, <3>1, <3>2
    <3>3. CASE n # 1
      <4>1. 1 \in 1 .. n
        BY <1>1, <2>1, <2>2
      <4>. QED
        BY <2>4, <3>1, <3>3, <4>1
    <3>. QED
      BY <3>2, <3>3
  <2>8. Chain(r, a, End(x)) /\ NoPair(r)
    BY <2>3, <2>4, <2>6, <2>7 DEF Chain, NoPair
  <2>9. UsedIn(r) = UsedIn(s)
    <3>1. ASSUME NEW j \in 1 .. n, ~r[j].free PROVE r[j] \in UsedIn(s)
      <4>1. j # n
        BY <2>2, <2>3, <2>4, <3>1
      <4>. QED
        BY <1>1, <2>1, <2>4, <3>1, <4>1 DEF UsedIn, Elements
    <3>2. ASSUME NEW j \in 1 .. n, ~s[j].free PROVE s[j] \in UsedIn(r)
      <4>1. j # n
        BY <2>1, <2>2, <3>2
      <4>. QED
        BY <2>4, <3>2, <4>1 DEF UsedIn, Elements
    <3>. QED
      <4>1. UsedIn(r) \subseteq UsedIn(s)
        BY <2>4, <3>1 DEF UsedIn, Elements
      <4>2. UsedIn(s) \subseteq UsedIn(r)
        BY <1>1, <2>1, <3>2 DEF UsedIn, Elements
      <4>. QED
        BY <4>1, <4>2
  <2>10. UsedIn(<<x>>) = {}
    BY <1>2, <1>3 DEF UsedIn
  <2>. QED
    BY <2>5, <2>8, <2>9, <2>10
<1>4. CASE ~(s # <<>> /\ s[Len(s)].free /\ x.free)
  <2>1. Join(s, x) = s \o <<x>>
    <3>1. Append(s, x) = s \o <<x>>
      BY <1>1
    <3>. QED
      BY <1>4, <3>1 DEF Join
  <2>2. Chain(s \o <<x>>, a, End(x))
    BY <1>2, ConcatChain
  <2>3. NoPair(s \o <<x>>)
    <3>1. s # <<>> /\ <<x>> # <<>> => ~(s[Len(s)].free /\ <<x>>[1].free)
      BY <1>4
    <3>. QED
      BY <1>1, <1>2, <3>1, ConcatNoPair
  <2>4. Elements(s \o <<x>>) = Elements(s) \cup Elements(<<x>>)
    BY <1>1, <1>2, ConcatElements
  <2>. QED
    BY <2>1, <2>2, <2>3, <2>4 DEF UsedIn
<1>. QED
  BY <1>3, <1>4

LEMMA CoalescedLoop ==
    ASSUME NEW s \in Seq(Block)
    PROVE  \E f : /\ f = [i \in 0 .. Len(s) |-> IF i = 0 THEN <<>> ELSE Join(f[i - 1], s[i])]
                  /\ Coalesced(s) = f[Len(s)]
<1>. DEFINE Loops(f) ==
         f = [i \in 0 .. Len(s) |-> IF i = 0 THEN <<>> ELSE Join(f[i - 1], s[i])]
<1>1. PICK n : n = Len(s)
  OBVIOUS
<1>2. n \in Nat /\ \A i \in 1 .. n : s[i] \in Block
  BY <1>1
<1>3. PICK G : G = [z \in Seq(Block) \X (1 .. n) |-> Join(z[1], s[z[2]])]
  OBVIOUS
<1>4. G \in [Seq(Block) \X (1 .. n) -> Seq(Block)]
  <2>1. ASSUME NEW z \in Seq(Block) \X (1 .. n) PROVE Join(z[1], s[z[2]]) \in Seq(Block)
    BY <1>2, JoinBlocks
  <2>. QED
    BY <1>3, <2>1
<1>5. <<>> \in Seq(Block)
  OBVIOUS
<1>6. PICK f \in [0 .. n -> Seq(Block)] :
         f[0] = <<>> /\ \A i \in 1 .. n : f[i] = G[<<f[i - 1], i>>]
  <2>1. PICK X, a : X = Seq(Block) /\ a = <<>>
    OBVIOUS
  <2>2. a \in X /\ n \in Nat /\ G \in [X \X (1 .. n) -> X]
    BY <1>2, <1>4, <1>5, <2>1
  <2>3. \E f : IsLoop(f, X, a, n, G)
    BY ONLY <2>2, Iterates
  <2>. QED
    BY <2>1, <2>3 DEF IsLoop
<1>7. ASSUME NEW i \in 1 .. n PROVE f[i] = Join(f[i - 1], s[i])
  <2>1. i - 1 \in 0 .. n
    BY <1>2
  <2>2. <<f[i - 1], i>> \in Seq(Block) \X (1 .. n)
    BY <1>6, <2>1
  <2>. QED
    BY <1>3, <1>6, <2>2
<1>8. f = [i \in 0 .. n |-> IF i = 0 THEN <<>> ELSE Join(f[i - 1], s[i])]
  <2>1. \A i \in 0 .. n : i # 0 => i \in 1 .. n
    BY <1>2
  <2>. QED
    BY <1>6, <1>7, <2>1
<1>9. Loops(f)
  BY <1>1, <1>8
<1>10. Loops(CHOOSE g : Loops(g))
  BY <1>9
<1>11. Coalesced(s) = (CHOOSE g : Loops(g))[Len(s)]
  BY DEF Coalesced, Join
<1>. QED
  BY <1>10, <1>11

LEMMA CoalescedSound ==
    ASSUME NEW s, NEW a, NEW b, Chain(s, a, b)
    PROVE  /\ Chain(Coalesced(s), a, b) /\ NoPair(Coalesced(s))
           /\ UsedIn(Coalesced(s)) = UsedIn(s)
<1>1. PICK n : n = Len(s)
  OBVIOUS
<1>2. s \in Seq(Block) /\ n \in Nat /\ DOMAIN s = 1 .. n /\ \A i \in 1 .. n : s[i] \in Block
  BY <1>1 DEF Chain
<1>3. PICK f : /\ f = [i \in 0 .. n |-> IF i = 0 THEN <<>> ELSE Join(f[i - 1], s[i])]
               /\ Coalesced(s) = f[n]
  BY <1>1, <1>2, CoalescedLoop
<1>. DEFINE Reach(i) == IF i = 0 THEN a ELSE End(s[i])
            UsedTo(i) == {x \in {s[j] : j \in 1 .. i} : ~x.free}
            S == {i \in 0 .. n : /\ Chain(f[i], a, Reach(i)) /\ NoPair(f[i])
                                 /\ UsedIn(f[i]) = UsedTo(i)}
<1>4. 0 \in S
  <2>1. f[0] = <<>> /\ 0 \in 0 .. n
    BY <1>2, <1>3
  <2>2. <<>> \in Seq(Block) /\ Len(<<>>) = 0 /\ DOMAIN <<>> = {}
    OBVIOUS
  <2>3. Chain(<<>>, a, a) /\ NoPair(<<>>) /\ UsedIn(<<>>) = {}
    BY <2>2 DEF Chain, NoPair, UsedIn, Elements
  <2>. QED
    BY <2>1, <2>3
<1>5. ASSUME NEW i \in 1 .. n, i - 1 \in S PROVE i \in S
  <2>1. f[i] = Join(f[i - 1], s[i]) /\ i \in 0 .. n /\ i # 0
    BY <1>2, <1>3
  <2>2. s[i].at = Reach(i - 1)
    <3>1. CASE i = 1
      BY <1>1, <1>2, <3>1 DEF Chain
    <3>2. CASE i # 1
      <4>1. i - 1 \in 1 .. Len(s) - 1 /\ (i - 1) + 1 = i
        BY <1>1, <1>2, <3>2
      <4>2. s[i - 1 + 1].at = End(s[i - 1])
        BY <4>1 DEF Chain
      <4>. QED
        BY <4>1, <4>2
    <3>. QED
      BY <3>1, <3>2
  <2>3. Chain(f[i - 1], a, s[i].at) /\ NoPair(f[i - 1]) /\ UsedIn(f[i - 1]) = UsedTo(i - 1)
    BY <1>5, <2>2
  <2>4. /\ Chain(f[i], a, End(s[i])) /\ NoPair(f[i])
        /\ UsedIn(f[i]) = UsedTo(i - 1) \cup UsedIn(<<s[i]>>)
    BY <1>2, <2>1, <2>3, JoinSound
  <2>5. UsedTo(i - 1) \cup UsedIn(<<s[i]>>) = UsedTo(i)
    <3>1. Elements(<<s[i]>>) = {s[i]}
      BY <1>2, OneBlock
    <3>2. 1 .. i = (1 .. i - 1) \cup {i}
      BY <1>2
    <3>. QED
      BY <3>1, <3>2 DEF UsedIn
  <2>. QED
    BY <2>1, <2>4, <2>5
<1>6. n \in S
  <2>1. 0 .. n \subseteq S
    <3>. HIDE DEF S
    <3>. QED
      BY ONLY <1>2, <1>4, <1>5, UpTo
  <2>. QED
    BY <1>2, <2>1
<1>7. Reach(n) = b
  <2>1. CASE n = 0
    BY <1>1, <1>2, <2>1 DEF Chain
  <2>2. CASE n # 0
    BY <1>1, <1>2, <2>2 DEF Chain
  <2>. QED
    BY <2>1, <2>2
<1>8. UsedTo(n) = UsedIn(s)
  BY <1>2 DEF UsedIn, Elements
<1>. QED
  BY <1>3, <1>6, <1>7, <1>8

LEMMA ReleaseKeeps ==
    ASSUME HeapInv, NEW p \in DOMAIN live, Release(p)
    PROVE  HeapInv'
<1>1. PICK s : s = [i \in DOMAIN blocks |->
                      IF blocks[i].at = p - HDR THEN [blocks[i] EXCEPT !.free = TRUE] ELSE blocks[i]]
  OBVIOUS
<1>2. /\ blocks' = Coalesced(s)
      /\ live' = [q \in DOMAIN live \ {p} |-> live[q]]
  BY <1>1 DEF Release
<1>3. PICK n : n = Len(blocks)
  OBVIOUS
<1>4. /\ blocks \in Seq(Block) /\ n \in Nat /\ DOMAIN blocks = 1 .. n /\ HDR \in Nat
      /\ \A i \in 1 .. n : blocks[i] \in Block
  BY <1>3, HeapAssumption DEF HeapInv, Chain
<1>5. ASSUME NEW i \in 1 .. n
      PROVE  /\ s[i] \in Block /\ s[i].at = blocks[i].at /\ s[i].size = blocks[i].size
             /\ End(s[i]) = End(blocks[i])
             /\ blocks[i].at # p - HDR => s[i] = blocks[i]
             /\ ~s[i].free => s[i] = blocks[i] /\ blocks[i].at # p - HDR
  <2>1. blocks[i].at \in Nat /\ blocks[i].size \in Nat
    BY <1>4 DEF Block
  <2>2. CASE blocks[i].at = p - HDR
    <3>1. s[i] = [blocks[i] EXCEPT !.free = TRUE]
      BY <1>1, <1>4, <2>2
    <3>2. s[i] = [at |-> blocks[i].at, size |-> blocks[i].size, free |-> TRUE]
      BY <1>4, <3>1 DEF Block
    <3>3. s[i].at = blocks[i].at /\ s[i].size = blocks[i].size /\ s[i].free = TRUE
      BY <3>2
    <3>. QED
      BY <2>1, <2>2, <3>2, <3>3 DEF Block, End
  <2>3. CASE blocks[i].at # p - HDR
    <3>1. s[i] = blocks[i]
      BY <1>1, <1>4, <2>3
    <3>. QED
      BY <1>4, <2>3, <3>1
  <2>. QED
    BY <2>2, <2>3
<1>6. s \in Seq(Block) /\ Len(s) = n /\ DOMAIN s = 1 .. n
  BY <1>1, <1>4, <1>5
<1>7. Chain(s, START, START + HEAP_SIZE)
  <2>1. n # 0
    BY <1>3, <1>4, HeapAssumption DEF HeapInv, Chain
  <2>2. s # <<>> /\ s[1].at = START /\ End(s[n]) = START + HEAP_SIZE
    <3>1. 1 \in 1 .. n /\ n \in 1 .. n
      BY <1>4, <2>1
    <3>2. blocks[1].at = START /\ End(blocks[n]) = START + HEAP_SIZE
      BY <1>3, <1>4, <2>1 DEF HeapInv, Chain
    <3>. QED
      BY <1>5, <1>6, <2>1, <3>1, <3>2
  <2>3. ASSUME NEW i \in 1 .. n - 1 PROVE s[i + 1].at = End(s[i])
    <3>1. i \in 1 .. n /\ i + 1 \in 1 .. n
      BY <1>4
    <3>2. blocks[i + 1].at = End(blocks[i])
      BY <1>3 DEF HeapInv, Chain
    <3>. QED
      BY <1>5, <3>1, <3>2
  <2>. QED
    BY <1>6, <2>2, <2>3 DEF Chain
<1>8. /\ Chain(blocks', START, START + HEAP_SIZE) /\ NoPair(blocks')
      /\ UsedIn(blocks') = UsedIn(s)
  BY <1>2, <1>7, CoalescedSound
<1>9. ASSUME NEW x \in UsedIn(s) PROVE x \in Elements(blocks) /\ x.at # p - HDR /\ ~x.free
  BY <1>4, <1>5, <1>6 DEF UsedIn, Elements
<1>10. ASSUME NEW x \in Elements(blocks), x.at # p - HDR, ~x.free PROVE x \in UsedIn(s)
  BY <1>4, <1>5, <1>6, <1>10 DEF UsedIn, Elements
<1>11. p \in Nat /\ DOMAIN live' = DOMAIN live \ {p} /\ \A q \in DOMAIN live' : live'[q] = live[q]
  BY <1>2 DEF HeapInv
<1>12. ASSUME NEW q \in DOMAIN live'
       PROVE  /\ q \in Nat
              /\ \E x \in Elements(blocks') : x.at = q - HDR /\ ~x.free /\ x.size >= live'[q]
  <2>1. q \in DOMAIN live /\ q # p /\ q \in Nat /\ live'[q] = live[q]
    BY <1>11 DEF HeapInv
  <2>2. PICK x \in Elements(blocks) : x.at = q - HDR /\ ~x.free /\ x.size >= live[q]
    BY <2>1 DEF HeapInv
  <2>3. q - HDR # p - HDR
    BY <1>4, <1>11, <2>1
  <2>4. x \in UsedIn(blocks')
    BY <1>8, <1>10, <2>2, <2>3
  <2>. QED
    BY <2>1, <2>2, <2>4 DEF UsedIn
<1>13. ASSUME NEW x \in Elements(blocks'), ~x.free PROVE x.at + HDR \in DOMAIN live'
  <2>1. x \in UsedIn(s)
    BY <1>8, <1>13 DEF UsedIn
  <2>2. x \in Elements(blocks) /\ x.at # p - HDR
    BY <1>9, <2>1
  <2>3. x.at \in Nat
    BY <1>4, <2>2 DEF Elements, Block
  <2>4. x.at + HDR \in DOMAIN live
    BY <1>13, <2>2 DEF HeapInv
  <2>5. x.at + HDR # p
    BY <1>4, <1>11, <2>2, <2>3
  <2>. QED
    BY <1>11, <2>4, <2>5
<1>. QED
  BY <1>8, <1>12, <1>13 DEF HeapInv

LEMMA HeapStarts == HeapInit => HeapInv
<1>. SUFFICES ASSUME HeapInit PROVE HeapInv
  OBVIOUS
<1>1. PICK b : b = [at |-> START, size |-> HEAP_SIZE - HDR, free |-> TRUE]
  OBVIOUS
<1>2. HEAP_SIZE - HDR \in Nat /\ START \in Nat /\ START + HDR + (HEAP_SIZE - HDR) = START + HEAP_SIZE
  BY HeapAssumption
<1>3. b \in Block /\ End(b) = START + HEAP_SIZE /\ b.at = START /\ b.free = TRUE
  BY <1>1, <1>2 DEF Block, End
<1>4. blocks = <<b>> /\ DOMAIN live = {}
  BY <1>1 DEF HeapInit
<1>. QED
  BY <1>3, <1>4, OneBlock DEF HeapInv

\* Every used block belongs to one holder: they are as many.
LEMMA HoldersCounted ==
    ASSUME HeapInv
    PROVE  Cardinality({i \in DOMAIN blocks : ~blocks[i].free}) = Cardinality(DOMAIN live)
<1>1. PICK used : used = {i \in DOMAIN blocks : ~blocks[i].free}
  OBVIOUS
<1>2. /\ blocks \in Seq(Block) /\ Len(blocks) \in Nat /\ DOMAIN blocks = 1 .. Len(blocks)
      /\ HDR \in Nat
      /\ \A i \in DOMAIN blocks : blocks[i] \in Block
  BY HeapAssumption DEF HeapInv, Chain
<1>3. PICK f : f = [i \in used |-> blocks[i].at + HDR]
  OBVIOUS
<1>4. ASSUME NEW i \in used PROVE f[i] \in DOMAIN live /\ blocks[i].at \in Nat
  BY <1>1, <1>2, <1>3 DEF HeapInv, Elements, Block
<1>5. ASSUME NEW i \in used, NEW j \in used, f[i] = f[j] PROVE i = j
  <2>0. /\ f[i] = blocks[i].at + HDR /\ f[j] = blocks[j].at + HDR
        /\ blocks[i].at \in Nat /\ blocks[j].at \in Nat
    BY <1>3, <1>4
  <2>1. i \in 1 .. Len(blocks) /\ j \in 1 .. Len(blocks) /\ blocks[i].at = blocks[j].at
    <3>1. i \in 1 .. Len(blocks) /\ j \in 1 .. Len(blocks)
      BY <1>1, <1>2
    <3>2. PICK u, v : u = blocks[i].at /\ v = blocks[j].at
      OBVIOUS
    <3>3. u \in Nat /\ v \in Nat /\ u + HDR = v + HDR
      BY <1>5, <2>0, <3>2
    <3>4. u = v
      BY <1>2, <3>3
    <3>. QED
      BY <3>1, <3>2, <3>4
  <2>2. End(blocks[i]) > blocks[i].at /\ End(blocks[j]) > blocks[j].at
    BY <1>2, <2>1, EndNat
  <2>3. End(blocks[i]) \in Nat /\ End(blocks[j]) \in Nat /\ blocks[i].at \in Nat
    BY <1>2, <1>4, <2>1, EndNat
  <2>4. CASE i < j
    <3>1. End(blocks[i]) <= blocks[j].at
      BY <2>1, <2>4, Ordered DEF HeapInv
    <3>. QED
      BY <2>1, <2>2, <2>3, <3>1
  <2>5. CASE j < i
    <3>1. End(blocks[j]) <= blocks[i].at
      BY <2>1, <2>5, Ordered DEF HeapInv
    <3>. QED
      BY <2>1, <2>2, <2>3, <3>1
  <2>. QED
    BY <1>2, <2>1, <2>4, <2>5
<1>6. ASSUME NEW p \in DOMAIN live PROVE \E i \in used : f[i] = p
  <2>1. PICK x \in Elements(blocks) : p \in Nat /\ x.at = p - HDR /\ ~x.free
    BY DEF HeapInv
  <2>2. PICK i \in DOMAIN blocks : x = blocks[i]
    BY DEF Elements
  <2>. QED
    BY <1>1, <1>2, <1>3, <2>1, <2>2
<1>7. f \in Bijection(used, DOMAIN live)
  <2>1. f \in [used -> DOMAIN live]
    BY <1>3, <1>4
  <2>. QED
    BY <1>5, <1>6, <2>1 DEF Bijection, Injection, Surjection, IsInjective
<1>8. IsFiniteSet(used)
  <2>1. IsFiniteSet(1 .. Len(blocks))
    BY <1>2, FS_Interval
  <2>2. used \subseteq 1 .. Len(blocks)
    BY <1>1, <1>2
  <2>. QED
    BY <2>1, <2>2, FS_Subset
<1>. QED
  BY <1>1, <1>7, <1>8, FS_Bijection DEF ExistsBijection

LEMMA HeapHolds == HeapInv => HeapSound
<1>. SUFFICES ASSUME HeapInv PROVE HeapSound
  OBVIOUS
<1>1. /\ blocks \in Seq(Block) /\ Len(blocks) \in Nat /\ DOMAIN blocks = 1 .. Len(blocks)
  BY DEF HeapInv, Chain
<1>2. blocks # <<>>
  BY HeapAssumption DEF HeapInv, Chain
<1>3. HeapTiled
  BY <1>1, <1>2 DEF HeapInv, Chain, HeapTiled, End
<1>4. HoldersApart
  BY HoldersCounted DEF HeapInv, HoldersApart, Elements
<1>5. NoSplinters
  BY DEF HeapInv, NoPair, NoSplinters
<1>. QED
  BY <1>3, <1>4, <1>5 DEF HeapSound

\* The heap's list covers the heap without a gap, every holder has a used
\* block of its own, large enough, and no two neighbours are free: whatever
\* is allocated, aligned or not, and freed, in whatever order (kheap_alloc,
\* kheap_free).
THEOREM HeapKept == HeapSpec => []HeapSound
<1>1. HeapInv /\ [HeapNext]_heapVars => HeapInv'
  <2>. SUFFICES ASSUME HeapInv, [HeapNext]_heapVars PROVE HeapInv'
    OBVIOUS
  <2>1. CASE \E n \in AllocSizes, align \in BOOLEAN : Alloc(n, align)
    BY <2>1, AllocKeeps
  <2>2. CASE \E p \in DOMAIN live : Release(p)
    BY <2>2, ReleaseKeeps
  <2>3. CASE UNCHANGED heapVars
    BY <2>3 DEF HeapInv, heapVars
  <2>. QED
    BY <2>1, <2>2, <2>3 DEF HeapNext
<1>. QED
  BY HeapStarts, HeapHolds, <1>1, PTL DEF HeapSpec

-----------------------------------------------------------------------------
(* Frames and directories.                                                 *)

\* Pages that share no page table with the trampoline.
UserPages == {v \in Pages : v \div TABLE # TRAMPOLINE \div TABLE}

Writers == Tasks \cup {Zero}
Entry   == [frame : Frames, w : BOOLEAN]
Maps    == UNION {[S -> Entry] : S \in SUBSET Int}
Space   == [live : BOOLEAN, tables : SUBSET Int, map : Maps]
Memory  == [ok : BOOLEAN, used : SUBSET Frames, data : [Frames -> Writers], dirs : [Dirs -> Space]]

MappedIn(m, d)   == DOMAIN m.dirs[d].map
FrameIn(m, d, v) == m.dirs[d].map[v].frame

\* What one page says of its frame, two pages of their frames, and a frame
\* in use of the pages.
PageSound(m, sees, d, v) ==
    /\ v \in UserPages /\ v \div TABLE \in m.dirs[d].tables
    /\ FrameIn(m, d, v) \in m.used /\ FrameIn(m, d, v) # TrampolineFrame
    /\ m.data[FrameIn(m, d, v)] \in {Zero} \cup sees[d]
PagesApart(m, d, v, e, u) == FrameIn(m, d, v) = FrameIn(m, e, u) => d = e /\ v = u
FrameMapped(m, f) == \E d \in Dirs : \E v \in MappedIn(m, d) : FrameIn(m, d, v) = f

\* The invariant of the memory, in which directory d may show what tasks
\* sees[d] wrote.
Sound(m, sees) ==
    /\ m \in Memory
    /\ TrampolineFrame \in m.used
    /\ \A d \in Dirs : ~m.dirs[d].live => MappedIn(m, d) = {}
    /\ \A d \in Dirs : \A v \in MappedIn(m, d) : PageSound(m, sees, d, v)
    /\ \A d, e \in Dirs : \A v \in MappedIn(m, d), u \in MappedIn(m, e) :
          PagesApart(m, d, v, e, u)
    /\ \A f \in m.used \ {TrampolineFrame} : FrameMapped(m, f)

\* From m to n only directory d changes, and stays.
OnlyDir(m, n, d) ==
    /\ \A e \in Dirs \ {d} : n.dirs[e] = m.dirs[e]
    /\ n.dirs[d].live = m.dirs[d].live

LEMMA LowestFrame ==
    ASSUME NEW S \in SUBSET Frames, S # {}
    PROVE  Lowest(S) \in S
<1>1. S \in SUBSET Nat
  BY MemoryAssumption
<1>2. \E x \in S : \A y \in S : x <= y
  BY <1>1, LeastNumber
<1>. QED
  BY <1>2 DEF Lowest

LEMMA FirstFrame == TrampolineFrame \in Frames
BY LowestFrame, MemoryAssumption DEF TrampolineFrame

\* A private table for a user page copies nothing.
LEMMA OwnUserTable ==
    ASSUME NEW dir \in Space, NEW v \in UserPages
    PROVE  OwnTable(dir, v) = [live |-> dir.live, tables |-> dir.tables \cup {v \div TABLE},
                               map |-> dir.map]
<1>1. dir = [live |-> dir.live, tables |-> dir.tables, map |-> dir.map]
  BY DEF Space
<1>2. CASE v \div TABLE \in dir.tables
  BY <1>1, <1>2 DEF OwnTable
<1>3. CASE v \div TABLE \notin dir.tables
  <2>1. InTables({v \div TABLE}) \cap DOMAIN KernelMap = {}
    BY DEF InTables, KernelMap, UserPages
  <2>2. PICK S \in SUBSET Int : dir.map \in [S -> Entry]
    BY DEF Space, Maps
  <2>3. [u \in DOMAIN dir.map \cup {} |-> IF u \in {} THEN KernelMap[u] ELSE dir.map[u]] = dir.map
    BY <2>2
  <2>4. OwnTable(dir, v) =
          [dir EXCEPT !.tables = dir.tables \cup {v \div TABLE},
                      !.map = [u \in DOMAIN dir.map \cup {} |->
                                  IF u \in {} THEN KernelMap[u] ELSE dir.map[u]]]
    BY <1>3, <2>1 DEF OwnTable
  <2>5. PICK l, t, map : l = dir.live /\ t = dir.tables /\ map = dir.map
    OBVIOUS
  <2>6. dir = [live |-> l, tables |-> t, map |-> map]
    BY <1>1, <2>5
  <2>8. [dir EXCEPT !.tables = t \cup {v \div TABLE}, !.map = map]
         = [[dir EXCEPT !.tables = t \cup {v \div TABLE}] EXCEPT !.map = map]
    OBVIOUS
  <2>9. [dir EXCEPT !.tables = t \cup {v \div TABLE}]
         = [live |-> l, tables |-> t \cup {v \div TABLE}, map |-> map]
    BY <2>6
  <2>7. OwnTable(dir, v) = [dir EXCEPT !.tables = t \cup {v \div TABLE}, !.map = map]
    <3>1. PICK copy : copy = [u \in DOMAIN dir.map \cup {} |->
                                IF u \in {} THEN KernelMap[u] ELSE dir.map[u]]
      OBVIOUS
    <3>2. OwnTable(dir, v) = [dir EXCEPT !.tables = dir.tables \cup {v \div TABLE}, !.map = copy]
      BY <2>4, <3>1
    <3>3. copy = map
      BY <2>3, <2>5, <3>1
    <3>. QED
      BY <2>5, <3>2, <3>3
  <2>. QED
    BY <2>5, <2>7, <2>8, <2>9
<1>. QED
  BY <1>2, <1>3

\* Page v of directory d gets frame f: what becomes of the memory m.
Placed(m, n, d, v, w, data, f, dir) ==
    /\ f \in Frames \ m.used
    /\ n = [ok |-> m.ok, used |-> m.used \cup {f}, data |-> [m.data EXCEPT ![f] = data],
            dirs |-> [m.dirs EXCEPT ![d] = dir]]
    /\ dir = [live |-> m.dirs[d].live, tables |-> m.dirs[d].tables \cup {v \div TABLE},
              map |-> [u \in MappedIn(m, d) \cup {v} |->
                         IF u = v THEN [frame |-> f, w |-> w] ELSE m.dirs[d].map[u]]]
    /\ dir \in Space

\* paging_map_in_directory with a frame.
LEMMA MapShape ==
    ASSUME NEW m \in Memory, NEW d \in Dirs, NEW v \in UserPages, NEW w \in BOOLEAN,
           NEW data \in Writers, m.ok, Frames \ m.used # {}
    PROVE  \E f, dir : Placed(m, MapPage(m, d, v, w, data), d, v, w, data, f, dir)
<1>1. PICK f : f = Lowest(Frames \ m.used)
  OBVIOUS
<1>2. f \in Frames \ m.used
  BY <1>1, LowestFrame
<1>3. m.dirs[d] \in Space
  BY DEF Memory
<1>4. PICK map, own : /\ map = m.dirs[d].map /\ own = OwnTable(m.dirs[d], v)
  OBVIOUS
<1>5. own = [live |-> m.dirs[d].live, tables |-> m.dirs[d].tables \cup {v \div TABLE}, map |-> map]
  BY <1>3, <1>4, OwnUserTable
<1>6. PICK S \in SUBSET Int : map \in [S -> Entry]
  BY <1>3, <1>4 DEF Space, Maps
<1>7. PICK new : new = [u \in MappedIn(m, d) \cup {v} |->
                          IF u = v THEN [frame |-> f, w |-> w] ELSE m.dirs[d].map[u]]
  OBVIOUS
<1>8. new \in Maps
  <2>1. MappedIn(m, d) = S
    BY <1>4, <1>6 DEF MappedIn
  <2>2. v \in Int
    BY DEF UserPages, Pages
  <2>3. S \cup {v} \in SUBSET Int
    BY <2>2
  <2>4. [frame |-> f, w |-> w] \in Entry
    BY <1>2 DEF Entry
  <2>5. new \in [S \cup {v} -> Entry]
    BY <1>4, <1>6, <1>7, <2>1, <2>4
  <2>. QED
    BY <2>3, <2>5 DEF Maps
<1>9. PICK dir : dir = [live |-> m.dirs[d].live, tables |-> m.dirs[d].tables \cup {v \div TABLE},
                        map |-> new]
  OBVIOUS
<1>10. dir \in Space
  <2>1. v \div TABLE \in Int
    BY MemoryAssumption DEF UserPages, Pages
  <2>. QED
    BY <1>3, <1>8, <1>9, <2>1 DEF Space
<1>11. [own EXCEPT !.map = new] = dir
  <2>1. PICK l, t : l = m.dirs[d].live /\ t = m.dirs[d].tables \cup {v \div TABLE}
    OBVIOUS
  <2>2. own = [live |-> l, tables |-> t, map |-> map]
    BY <1>5, <2>1
  <2>3. [own EXCEPT !.map = new] = [live |-> l, tables |-> t, map |-> new]
    BY <2>2
  <2>. QED
    BY <1>9, <2>1, <2>3
<1>12. MapPage(m, d, v, w, data) =
         [m EXCEPT !.used = m.used \cup {f}, !.data[f] = data, !.dirs[d] = dir]
  <2>1. new = [u \in DOMAIN own.map \cup {v} |-> IF u = v THEN [frame |-> f, w |-> w] ELSE own.map[u]]
    <3>1. own.map = map
      BY <1>5
    <3>. QED
      BY <1>4, <1>7, <3>1 DEF MappedIn
  <2>2. MapPage(m, d, v, w, data) =
          [m EXCEPT !.used = @ \cup {f}, !.data[f] = data,
                    !.dirs[d] = [own EXCEPT !.map =
                       [u \in DOMAIN @ \cup {v} |->
                           IF u = v THEN [frame |-> f, w |-> w] ELSE @[u]]]]
    BY <1>1, <1>4 DEF MapPage
  <2>. QED
    BY <1>11, <2>1, <2>2
<1>13. PICK ok, used, dat, dirs : ok = m.ok /\ used = m.used /\ dat = m.data /\ dirs = m.dirs
  OBVIOUS
<1>14. m = [ok |-> ok, used |-> used, data |-> dat, dirs |-> dirs]
  BY <1>13 DEF Memory
<1>15. [m EXCEPT !.used = used \cup {f}, !.data[f] = data, !.dirs[d] = dir]
        = [ok |-> ok, used |-> used \cup {f}, data |-> [dat EXCEPT ![f] = data],
           dirs |-> [dirs EXCEPT ![d] = dir]]
  <2>1. PICK dat2, dirs2, used2 : /\ dat2 = [dat EXCEPT ![f] = data] /\ dirs2 = [dirs EXCEPT ![d] = dir]
                                  /\ used2 = used \cup {f}
    OBVIOUS
  <2>2. [m EXCEPT !.used = used2, !.data[f] = data, !.dirs[d] = dir]
         = [m EXCEPT !.used = used2, !.data = dat2, !.dirs = dirs2]
    BY <1>13, <2>1
  <2>3. [m EXCEPT !.used = used2, !.data = dat2, !.dirs = dirs2]
         = [ok |-> ok, used |-> used2, data |-> dat2, dirs |-> dirs2]
    <3>1. [m EXCEPT !.used = used2, !.data = dat2, !.dirs = dirs2]
           = [[[m EXCEPT !.used = used2] EXCEPT !.data = dat2] EXCEPT !.dirs = dirs2]
      OBVIOUS
    <3>2. [m EXCEPT !.used = used2] = [ok |-> ok, used |-> used2, data |-> dat, dirs |-> dirs]
      BY ONLY <1>14
    <3>3. [[ok |-> ok, used |-> used2, data |-> dat, dirs |-> dirs] EXCEPT !.data = dat2]
           = [ok |-> ok, used |-> used2, data |-> dat2, dirs |-> dirs]
      OBVIOUS
    <3>4. [[ok |-> ok, used |-> used2, data |-> dat2, dirs |-> dirs] EXCEPT !.dirs = dirs2]
           = [ok |-> ok, used |-> used2, data |-> dat2, dirs |-> dirs2]
      OBVIOUS
    <3>. QED
      BY <3>1, <3>2, <3>3, <3>4
  <2>. QED
    BY <2>1, <2>2, <2>3
<1>. QED
  <2>1. MapPage(m, d, v, w, data)
         = [ok |-> m.ok, used |-> m.used \cup {f}, data |-> [m.data EXCEPT ![f] = data],
            dirs |-> [m.dirs EXCEPT ![d] = dir]]
    BY <1>12, <1>13, <1>15
  <2>. QED
    BY <1>2, <1>7, <1>9, <1>10, <2>1 DEF Placed

\* Whether frames were missing is not a matter of soundness.
LEMMA OkSound ==
    ASSUME NEW m, NEW sees, Sound(m, sees), NEW b \in BOOLEAN
    PROVE  LET n == [m EXCEPT !.ok = b] IN
           Sound(n, sees) /\ n.dirs = m.dirs /\ n.ok = b /\ n.used = m.used /\ n.data = m.data
<1>1. PICK n : n = [m EXCEPT !.ok = b]
  OBVIOUS
<1>2. m \in Memory
  BY DEF Sound
<1>3. PICK used, dat, dirs : used = m.used /\ dat = m.data /\ dirs = m.dirs
  OBVIOUS
<1>4. m = [ok |-> m.ok, used |-> used, data |-> dat, dirs |-> dirs]
  BY <1>2, <1>3 DEF Memory
<1>5. n = [ok |-> b, used |-> used, data |-> dat, dirs |-> dirs]
  BY ONLY <1>1, <1>4
<1>6. n.ok = b /\ n.used = m.used /\ n.data = m.data /\ n.dirs = m.dirs
  BY <1>3, <1>5
<1>7. n \in Memory
  BY <1>2, <1>3, <1>5 DEF Memory
<1>8. Sound(n, sees)
  <2>1. \A d : MappedIn(n, d) = MappedIn(m, d) /\ \A v : FrameIn(n, d, v) = FrameIn(m, d, v)
    BY <1>6 DEF MappedIn, FrameIn
  <2>2. \A d \in Dirs : ~n.dirs[d].live => MappedIn(n, d) = {}
    BY <1>6, <2>1 DEF Sound
  <2>3. ASSUME NEW d \in Dirs, NEW v \in MappedIn(n, d) PROVE PageSound(n, sees, d, v)
    <3>1. PageSound(m, sees, d, v)
      BY <2>1 DEF Sound
    <3>. QED
      BY <1>6, <2>1, <3>1 DEF PageSound
  <2>4. ASSUME NEW d \in Dirs, NEW e \in Dirs, NEW v \in MappedIn(n, d), NEW u \in MappedIn(n, e)
        PROVE  PagesApart(n, d, v, e, u)
    <3>1. PagesApart(m, d, v, e, u)
      BY <2>1 DEF Sound
    <3>. QED
      BY <2>1, <3>1 DEF PagesApart
  <2>5. ASSUME NEW f \in n.used \ {TrampolineFrame} PROVE FrameMapped(n, f)
    <3>1. FrameMapped(m, f)
      BY <1>6 DEF Sound
    <3>. QED
      BY <2>1, <3>1 DEF FrameMapped
  <2>6. TrampolineFrame \in n.used
    BY <1>6 DEF Sound
  <2>. QED
    BY <1>7, <2>2, <2>3, <2>4, <2>5, <2>6 DEF Sound
<1>. QED
  BY <1>1, <1>6, <1>8

LEMMA MapSound ==
    ASSUME NEW m, NEW sees, Sound(m, sees), NEW d \in Dirs, m.dirs[d].live,
           NEW v \in UserPages, v \notin MappedIn(m, d), NEW w \in BOOLEAN,
           NEW data \in Writers, data \in {Zero} \cup sees[d]
    PROVE  LET n == MapPage(m, d, v, w, data) IN
           /\ Sound(n, sees) /\ OnlyDir(m, n, d)
           /\ MappedIn(m, d) \subseteq MappedIn(n, d)
           /\ MappedIn(n, d) \subseteq MappedIn(m, d) \cup {v}
           /\ n.ok => m.ok /\ v \in MappedIn(n, d)
<1>1. PICK n : n = MapPage(m, d, v, w, data)
  OBVIOUS
<1>2. m \in Memory /\ m.ok \in BOOLEAN
  BY DEF Sound, Memory
<1>3. CASE ~m.ok
  <2>1. n = m
    BY <1>1, <1>3 DEF MapPage
  <2>. QED
    BY <1>1, <1>3, <2>1 DEF OnlyDir
<1>4. CASE m.ok /\ Frames \ m.used = {}
  <2>1. n = [m EXCEPT !.ok = FALSE]
    BY <1>1, <1>4 DEF MapPage
  <2>2. Sound(n, sees) /\ n.dirs = m.dirs /\ n.ok = FALSE
    BY <2>1, OkSound
  <2>. QED
    BY <1>1, <2>2 DEF OnlyDir, MappedIn
<1>5. CASE m.ok /\ Frames \ m.used # {}
  <2>1. PICK f, dir :
          /\ f \in Frames \ m.used
          /\ n = [ok |-> m.ok, used |-> m.used \cup {f}, data |-> [m.data EXCEPT ![f] = data],
                  dirs |-> [m.dirs EXCEPT ![d] = dir]]
          /\ dir = [live |-> m.dirs[d].live, tables |-> m.dirs[d].tables \cup {v \div TABLE},
                    map |-> [u \in MappedIn(m, d) \cup {v} |->
                               IF u = v THEN [frame |-> f, w |-> w] ELSE m.dirs[d].map[u]]]
          /\ dir \in Space
    <3>1. \E f, dir : Placed(m, n, d, v, w, data, f, dir)
      BY <1>1, <1>2, <1>5, MapShape
    <3>. QED
      BY <3>1 DEF Placed
  <2>2. m.data \in [Frames -> Writers] /\ m.dirs \in [Dirs -> Space] /\ m.used \in SUBSET Frames
    BY <1>2 DEF Memory
  <2>3. /\ n.ok = m.ok /\ n.used = m.used \cup {f} /\ n.data = [m.data EXCEPT ![f] = data]
        /\ n.dirs = [m.dirs EXCEPT ![d] = dir]
    BY <2>1
  <2>4. n \in Memory
    BY <1>2, <2>1, <2>2 DEF Memory
  <2>5. /\ n.dirs[d] = dir /\ \A e \in Dirs \ {d} : n.dirs[e] = m.dirs[e]
        /\ n.data[f] = data /\ \A g \in m.used : g # f /\ n.data[g] = m.data[g]
    BY <2>1, <2>2, <2>3
  <2>6. /\ MappedIn(n, d) = MappedIn(m, d) \cup {v}
        /\ FrameIn(n, d, v) = f
        /\ \A u \in MappedIn(m, d) : u # v /\ FrameIn(n, d, u) = FrameIn(m, d, u)
        /\ dir.live = m.dirs[d].live
        /\ dir.tables = m.dirs[d].tables \cup {v \div TABLE}
    <3>1. PICK map : map = [u \in MappedIn(m, d) \cup {v} |->
                              IF u = v THEN [frame |-> f, w |-> w] ELSE m.dirs[d].map[u]]
      OBVIOUS
    <3>2. /\ dir.map = map /\ dir.live = m.dirs[d].live
          /\ dir.tables = m.dirs[d].tables \cup {v \div TABLE}
      BY <2>1, <3>1
    <3>3. n.dirs[d].map = map
      BY <2>5, <3>2
    <3>4. DOMAIN map = MappedIn(m, d) \cup {v} /\ map[v].frame = f
      BY ONLY <3>1
    <3>5. \A u \in MappedIn(m, d) : u # v /\ map[u] = m.dirs[d].map[u]
      BY ONLY <3>1, v \notin MappedIn(m, d)
    <3>. QED
      BY <3>2, <3>3, <3>4, <3>5 DEF MappedIn, FrameIn
  <2>7. \A e \in Dirs \ {d} : /\ MappedIn(n, e) = MappedIn(m, e)
                              /\ \A u \in MappedIn(m, e) : FrameIn(n, e, u) = FrameIn(m, e, u)
    BY <2>5 DEF MappedIn, FrameIn
  <2>8. OnlyDir(m, n, d)
    BY <2>5, <2>6 DEF OnlyDir
  <2>9. TrampolineFrame \in n.used /\ f # TrampolineFrame
    BY <2>1, <2>3 DEF Sound
  <2>10. \A e \in Dirs : \A u \in MappedIn(m, e) : FrameIn(m, e, u) \in m.used
    BY DEF Sound, PageSound
  <2>11. ASSUME NEW e \in Dirs, NEW u \in MappedIn(n, e) PROVE PageSound(n, sees, e, u)
    <3>1. CASE u \in MappedIn(m, e) /\ ~(e = d /\ u = v)
      <4>1. PageSound(m, sees, e, u) /\ FrameIn(n, e, u) = FrameIn(m, e, u)
        BY <2>6, <2>7, <3>1 DEF Sound
      <4>2. n.data[FrameIn(m, e, u)] = m.data[FrameIn(m, e, u)]
        BY <2>5, <2>10, <3>1
      <4>3. m.dirs[e].tables \subseteq n.dirs[e].tables
        BY <2>5, <2>6
      <4>. QED
        BY <2>3, <4>1, <4>2, <4>3 DEF PageSound
    <3>2. CASE e = d /\ u = v
      BY <2>3, <2>5, <2>6, <2>9, <3>2 DEF PageSound
    <3>. QED
      BY <2>6, <2>7, <3>1, <3>2
  <2>12. ASSUME NEW e \in Dirs, NEW g \in Dirs, NEW u \in MappedIn(n, e), NEW x \in MappedIn(n, g)
         PROVE  PagesApart(n, e, u, g, x)
    <3>1. CASE (e = d /\ u = v) \/ (g = d /\ x = v)
      BY <2>5, <2>6, <2>7, <2>10, <3>1 DEF PagesApart
    <3>2. CASE ~(e = d /\ u = v) /\ ~(g = d /\ x = v)
      <4>1. /\ u \in MappedIn(m, e) /\ x \in MappedIn(m, g)
            /\ FrameIn(n, e, u) = FrameIn(m, e, u) /\ FrameIn(n, g, x) = FrameIn(m, g, x)
        BY <2>6, <2>7, <3>2
      <4>2. PagesApart(m, e, u, g, x)
        BY <4>1 DEF Sound
      <4>. QED
        BY <4>1, <4>2 DEF PagesApart
    <3>. QED
      BY <3>1, <3>2
  <2>13. ASSUME NEW g \in n.used \ {TrampolineFrame} PROVE FrameMapped(n, g)
    <3>1. CASE g = f
      BY <2>6, <3>1 DEF FrameMapped
    <3>2. CASE g # f
      <4>1. FrameMapped(m, g)
        BY <2>3, <3>2 DEF Sound
      <4>2. PICK e, u : e \in Dirs /\ u \in MappedIn(m, e) /\ FrameIn(m, e, u) = g
        BY <4>1 DEF FrameMapped
      <4>3. u \in MappedIn(n, e) /\ FrameIn(n, e, u) = g
        BY <2>6, <2>7, <4>2
      <4>. QED
        BY <4>2, <4>3 DEF FrameMapped
    <3>. QED
      BY <3>1, <3>2
  <2>14. \A e \in Dirs : ~n.dirs[e].live => MappedIn(n, e) = {}
    BY <2>5, <2>6, <2>7 DEF Sound
  <2>15. Sound(n, sees)
    BY <2>4, <2>9, <2>11, <2>12, <2>13, <2>14 DEF Sound
  <2>. QED
    BY <1>1, <1>5, <2>3, <2>6, <2>8, <2>15
<1>. QED
  BY <1>2, <1>3, <1>4, <1>5

LEMMA MapTyped ==
    ASSUME NEW m \in Memory, NEW d \in Dirs, NEW v \in UserPages, NEW w \in BOOLEAN,
           NEW data \in Writers
    PROVE  MapPage(m, d, v, w, data) \in Memory
<1>1. CASE ~m.ok
  BY <1>1 DEF MapPage
<1>2. CASE m.ok /\ Frames \ m.used = {}
  <2>1. MapPage(m, d, v, w, data) = [m EXCEPT !.ok = FALSE]
    BY <1>2 DEF MapPage
  <2>2. [m EXCEPT !.ok = FALSE] \in Memory
    BY DEF Memory
  <2>. QED
    BY <2>1, <2>2
<1>3. CASE m.ok /\ Frames \ m.used # {}
  <2>1. PICK n : n = MapPage(m, d, v, w, data)
    OBVIOUS
  <2>2. PICK f, dir : Placed(m, n, d, v, w, data, f, dir)
    BY <1>3, <2>1, MapShape
  <2>3. m.data \in [Frames -> Writers] /\ m.dirs \in [Dirs -> Space] /\ m.used \in SUBSET Frames
        /\ m.ok \in BOOLEAN
    BY DEF Memory
  <2>4. n \in Memory
    BY <2>2, <2>3 DEF Memory, Placed
  <2>. QED
    BY <2>1, <2>4
<1>. QED
  BY <1>1, <1>2, <1>3 DEF Memory

\* A page of a user is mapped in its directory or not at all.
LEMMA EntryMapped ==
    ASSUME NEW m, NEW sees, Sound(m, sees), NEW d \in Dirs, NEW v \in UserPages
    PROVE  EntryOf(m, d, v) # {} <=> v \in MappedIn(m, d)
<1>1. v \notin DOMAIN KernelMap
  BY DEF KernelMap, UserPages
<1>2. v \in MappedIn(m, d) => v \div TABLE \in m.dirs[d].tables
  BY DEF Sound, PageSound
<1>3. CASE v \div TABLE \in m.dirs[d].tables
  BY <1>3 DEF EntryOf, MappedIn
<1>4. CASE v \div TABLE \notin m.dirs[d].tables
  BY <1>1, <1>2, <1>4 DEF EntryOf
<1>. QED
  BY <1>3, <1>4

LEMMA MapUserSound ==
    ASSUME NEW m, NEW sees, Sound(m, sees), NEW d \in Dirs, m.dirs[d].live,
           NEW v \in UserPages, NEW w \in BOOLEAN
    PROVE  LET n == MapUser(m, d, v, w) IN
           /\ Sound(n, sees) /\ OnlyDir(m, n, d)
           /\ MappedIn(m, d) \subseteq MappedIn(n, d)
           /\ n.ok => m.ok /\ v \in MappedIn(n, d)
<1>1. CASE v \in MappedIn(m, d)
  <2>1. MapUser(m, d, v, w) = m
    BY <1>1, EntryMapped DEF MapUser
  <2>. QED
    BY <1>1, <2>1 DEF OnlyDir
<1>2. CASE v \notin MappedIn(m, d)
  <2>1. MapUser(m, d, v, w) = MapPage(m, d, v, w, Zero)
    BY <1>2, EntryMapped DEF MapUser
  <2>2. Zero \in Writers /\ Zero \in {Zero} \cup sees[d]
    BY DEF Writers
  <2>. QED
    BY <1>2, <2>1, <2>2, MapSound
<1>. QED
  BY <1>1, <1>2

LEMMA MapUserTyped ==
    ASSUME NEW m \in Memory, NEW d \in Dirs, NEW v \in UserPages, NEW w \in BOOLEAN
    PROVE  MapUser(m, d, v, w) \in Memory
BY MapTyped DEF MapUser, Writers

\* paging_unmap_in_directory of a page that the directory maps.
Taken(m, n, d, v, dir) ==
    /\ n = [ok |-> m.ok, used |-> m.used \ {FrameIn(m, d, v)}, data |-> m.data,
            dirs |-> [m.dirs EXCEPT ![d] = dir]]
    /\ dir = [live |-> m.dirs[d].live, tables |-> m.dirs[d].tables,
              map |-> [u \in MappedIn(m, d) \ {v} |-> m.dirs[d].map[u]]]
    /\ dir \in Space

LEMMA UnmapShape ==
    ASSUME NEW m \in Memory, NEW d \in Dirs, NEW v \in MappedIn(m, d)
    PROVE  \E dir : Taken(m, UnmapPage(m, d, v), d, v, dir)
<1>1. PICK f, new : f = FrameIn(m, d, v) /\ new = [u \in MappedIn(m, d) \ {v} |-> m.dirs[d].map[u]]
  OBVIOUS
<1>2. m.dirs[d] \in Space
  BY DEF Memory
<1>3. new \in Maps
  <2>1. PICK S \in SUBSET Int : m.dirs[d].map \in [S -> Entry]
    BY <1>2 DEF Space, Maps
  <2>2. new \in [S \ {v} -> Entry]
    BY <1>1, <2>1 DEF MappedIn
  <2>. QED
    BY <2>2 DEF Maps
<1>4. PICK l, t, map, ok, used, dat, dirs :
        /\ l = m.dirs[d].live /\ t = m.dirs[d].tables /\ map = m.dirs[d].map
        /\ ok = m.ok /\ used = m.used /\ dat = m.data /\ dirs = m.dirs
  OBVIOUS
<1>5. m.dirs[d] = [live |-> l, tables |-> t, map |-> map]
  BY <1>2, <1>4 DEF Space
<1>6. m = [ok |-> ok, used |-> used, data |-> dat, dirs |-> dirs]
  BY <1>4 DEF Memory
<1>7. PICK dir : dir = [live |-> l, tables |-> t, map |-> new]
  OBVIOUS
<1>8. dir \in Space
  BY <1>2, <1>3, <1>4, <1>7 DEF Space
<1>9. [m.dirs[d] EXCEPT !.map = new] = dir
  BY ONLY <1>5, <1>7
<1>10. PICK dirs2, used2 : dirs2 = [dirs EXCEPT ![d] = dir] /\ used2 = used \ {f}
  OBVIOUS
<1>11. d \in DOMAIN m.dirs
  BY DEF Memory
<1>12. UnmapPage(m, d, v) = [m EXCEPT !.used = used2, !.dirs = dirs2]
  <2>1. UnmapPage(m, d, v) = [m EXCEPT !.used = m.used \ {f}, !.dirs[d].map = new]
    BY <1>1 DEF UnmapPage, MappedIn, FrameIn
  <2>2. [m EXCEPT !.used = m.used \ {f}, !.dirs[d].map = new]
         = [m EXCEPT !.used = m.used \ {f}, !.dirs = [m.dirs EXCEPT ![d] = [m.dirs[d] EXCEPT !.map = new]]]
    BY <1>11
  <2>. QED
    BY <1>4, <1>9, <1>10, <2>1, <2>2
<1>13. [m EXCEPT !.used = used2, !.dirs = dirs2]
        = [[m EXCEPT !.used = used2] EXCEPT !.dirs = dirs2]
  OBVIOUS
<1>14. [m EXCEPT !.used = used2] = [ok |-> ok, used |-> used2, data |-> dat, dirs |-> dirs]
  BY ONLY <1>6
<1>15. [[ok |-> ok, used |-> used2, data |-> dat, dirs |-> dirs] EXCEPT !.dirs = dirs2]
        = [ok |-> ok, used |-> used2, data |-> dat, dirs |-> dirs2]
  OBVIOUS
<1>16. UnmapPage(m, d, v) = [ok |-> ok, used |-> used2, data |-> dat, dirs |-> dirs2]
  BY <1>12, <1>13, <1>14, <1>15
<1>. QED
  BY <1>1, <1>4, <1>7, <1>8, <1>10, <1>16 DEF Taken

LEMMA UnmapSound ==
    ASSUME NEW m, NEW sees, Sound(m, sees), NEW d \in Dirs, NEW v
    PROVE  LET n == UnmapPage(m, d, v) IN
           /\ Sound(n, sees) /\ OnlyDir(m, n, d) /\ n.ok = m.ok
           /\ MappedIn(n, d) = MappedIn(m, d) \ {v}
<1>1. PICK n : n = UnmapPage(m, d, v)
  OBVIOUS
<1>2. m \in Memory
  BY DEF Sound
<1>3. CASE v \notin MappedIn(m, d)
  <2>1. n = m
    BY <1>1, <1>3 DEF UnmapPage, MappedIn
  <2>. QED
    BY <1>1, <1>3, <2>1 DEF OnlyDir
<1>4. CASE v \in MappedIn(m, d)
  <2>1. PICK dir : Taken(m, n, d, v, dir)
    BY <1>1, <1>2, <1>4, UnmapShape
  <2>2. PICK f : f = FrameIn(m, d, v)
    OBVIOUS
  <2>3. /\ m.data \in [Frames -> Writers] /\ m.dirs \in [Dirs -> Space]
        /\ m.used \in SUBSET Frames /\ m.ok \in BOOLEAN
    BY <1>2 DEF Memory
  <2>4. /\ n.ok = m.ok /\ n.used = m.used \ {f} /\ n.data = m.data
        /\ n.dirs = [m.dirs EXCEPT ![d] = dir] /\ dir \in Space
    BY <2>1, <2>2 DEF Taken
  <2>5. n \in Memory
    BY <2>1, <2>3 DEF Memory, Taken
  <2>6. n.dirs[d] = dir /\ \A e \in Dirs \ {d} : n.dirs[e] = m.dirs[e]
    BY <2>3, <2>4
  <2>7. /\ MappedIn(n, d) = MappedIn(m, d) \ {v}
        /\ \A u \in MappedIn(n, d) : FrameIn(n, d, u) = FrameIn(m, d, u)
        /\ dir.live = m.dirs[d].live /\ dir.tables = m.dirs[d].tables
    <3>1. PICK map : map = [u \in MappedIn(m, d) \ {v} |-> m.dirs[d].map[u]]
      OBVIOUS
    <3>2. /\ dir.map = map /\ dir.live = m.dirs[d].live /\ dir.tables = m.dirs[d].tables
      BY <2>1, <3>1 DEF Taken
    <3>3. n.dirs[d].map = map
      BY <2>6, <3>2
    <3>4. DOMAIN map = MappedIn(m, d) \ {v} /\ \A u \in DOMAIN map : map[u] = m.dirs[d].map[u]
      BY ONLY <3>1
    <3>. QED
      BY <3>2, <3>3, <3>4 DEF MappedIn, FrameIn
  <2>8. \A e \in Dirs \ {d} : /\ MappedIn(n, e) = MappedIn(m, e)
                              /\ \A u \in MappedIn(m, e) : FrameIn(n, e, u) = FrameIn(m, e, u)
    BY <2>6 DEF MappedIn, FrameIn
  <2>9. OnlyDir(m, n, d)
    BY <2>6, <2>7 DEF OnlyDir
  <2>10. ASSUME NEW e \in Dirs, NEW u \in MappedIn(n, e)
         PROVE  /\ u \in MappedIn(m, e) /\ FrameIn(n, e, u) = FrameIn(m, e, u)
                /\ FrameIn(m, e, u) # f
    <3>1. u \in MappedIn(m, e) /\ FrameIn(n, e, u) = FrameIn(m, e, u) /\ ~(e = d /\ u = v)
      BY <2>7, <2>8
    <3>2. PagesApart(m, e, u, d, v)
      BY <1>4, <3>1 DEF Sound
    <3>. QED
      BY <2>2, <3>1, <3>2 DEF PagesApart
  <2>11. ASSUME NEW e \in Dirs, NEW u \in MappedIn(n, e) PROVE PageSound(n, sees, e, u)
    <3>1. PageSound(m, sees, e, u)
      BY <2>10 DEF Sound
    <3>2. n.dirs[e].tables = m.dirs[e].tables
      BY <2>6, <2>7
    <3>. QED
      BY <2>4, <2>10, <3>1, <3>2 DEF PageSound
  <2>12. ASSUME NEW e \in Dirs, NEW g \in Dirs, NEW u \in MappedIn(n, e), NEW x \in MappedIn(n, g)
         PROVE  PagesApart(n, e, u, g, x)
    <3>1. PagesApart(m, e, u, g, x)
      BY <2>10 DEF Sound
    <3>. QED
      BY <2>10, <3>1 DEF PagesApart
  <2>13. ASSUME NEW g \in n.used \ {TrampolineFrame} PROVE FrameMapped(n, g)
    <3>1. FrameMapped(m, g) /\ g # f
      BY <2>4 DEF Sound
    <3>2. PICK e, u : e \in Dirs /\ u \in MappedIn(m, e) /\ FrameIn(m, e, u) = g
      BY <3>1 DEF FrameMapped
    <3>3. u \in MappedIn(n, e)
      BY <2>2, <2>7, <2>8, <3>1, <3>2
    <3>4. FrameIn(n, e, u) = g
      BY <2>10, <3>2, <3>3
    <3>. QED
      BY <3>2, <3>3, <3>4 DEF FrameMapped
  <2>14. TrampolineFrame \in n.used
    <3>1. f # TrampolineFrame
      BY <1>4, <2>2 DEF Sound, PageSound
    <3>. QED
      BY <2>4, <3>1 DEF Sound
  <2>15. \A e \in Dirs : ~n.dirs[e].live => MappedIn(n, e) = {}
    BY <2>6, <2>7, <2>8 DEF Sound
  <2>16. Sound(n, sees)
    BY <2>5, <2>11, <2>12, <2>13, <2>14, <2>15 DEF Sound
  <2>. QED
    BY <1>1, <2>4, <2>7, <2>9, <2>16
<1>. QED
  BY <1>3, <1>4

LEMMA UnmapTyped ==
    ASSUME NEW m \in Memory, NEW d \in Dirs, NEW v
    PROVE  UnmapPage(m, d, v) \in Memory
<1>1. CASE v \notin MappedIn(m, d)
  BY <1>1 DEF UnmapPage, MappedIn
<1>2. CASE v \in MappedIn(m, d)
  <2>1. PICK n : n = UnmapPage(m, d, v)
    OBVIOUS
  <2>2. PICK dir : Taken(m, n, d, v, dir)
    BY <1>2, <2>1, UnmapShape
  <2>3. /\ m.data \in [Frames -> Writers] /\ m.dirs \in [Dirs -> Space]
        /\ m.used \in SUBSET Frames /\ m.ok \in BOOLEAN
    BY DEF Memory
  <2>4. n \in Memory
    BY <2>2, <2>3 DEF Memory, Taken
  <2>. QED
    BY <2>1, <2>4
<1>. QED
  BY <1>1, <1>2

\* A directory's entry in the table of directories alone changes.
LEMMA NewEntry ==
    ASSUME NEW m \in Memory, NEW d \in Dirs, NEW used, NEW dir,
           NEW n, n = [m EXCEPT !.used = used, !.dirs[d] = dir]
    PROVE  n = [ok |-> m.ok, used |-> used, data |-> m.data, dirs |-> [m.dirs EXCEPT ![d] = dir]]
<1>1. PICK ok, used1, dat, dirs : ok = m.ok /\ used1 = m.used /\ dat = m.data /\ dirs = m.dirs
  OBVIOUS
<1>2. m = [ok |-> ok, used |-> used1, data |-> dat, dirs |-> dirs]
  BY <1>1 DEF Memory
<1>3. PICK dirs2 : dirs2 = [dirs EXCEPT ![d] = dir]
  OBVIOUS
<1>4. n = [m EXCEPT !.used = used, !.dirs = dirs2]
  BY <1>1, <1>3
<1>5. n = [[m EXCEPT !.used = used] EXCEPT !.dirs = dirs2]
  BY <1>4
<1>6. [m EXCEPT !.used = used] = [ok |-> ok, used |-> used, data |-> dat, dirs |-> dirs]
  BY ONLY <1>2
<1>7. [[ok |-> ok, used |-> used, data |-> dat, dirs |-> dirs] EXCEPT !.dirs = dirs2]
       = [ok |-> ok, used |-> used, data |-> dat, dirs |-> dirs2]
  OBVIOUS
<1>. QED
  BY <1>1, <1>3, <1>5, <1>6, <1>7

LEMMA EmptySpace ==
    /\ NoDir \in Space /\ NoDir.live = FALSE /\ DOMAIN NoDir.map = {}
    /\ [NoDir EXCEPT !.live = TRUE] = [live |-> TRUE, tables |-> {}, map |-> <<>>]
    /\ [live |-> TRUE, tables |-> {}, map |-> <<>>] \in Space
<1>1. <<>> \in [{} -> Entry]
  OBVIOUS
<1>2. <<>> \in Maps
  BY <1>1 DEF Maps
<1>3. NoDir \in Space
  BY <1>2 DEF NoDir, Space
<1>4. [live |-> TRUE, tables |-> {}, map |-> <<>>] \in Space
  BY <1>2 DEF Space
<1>5. [NoDir EXCEPT !.live = TRUE] = [live |-> TRUE, tables |-> {}, map |-> <<>>]
  <2>1. PICK map, dir, no, yes : map = <<>> /\ dir = NoDir /\ no = FALSE /\ yes = TRUE
    OBVIOUS
  <2>2. dir = [live |-> no, tables |-> {}, map |-> map]
    BY <2>1 DEF NoDir
  <2>3. [dir EXCEPT !.live = yes] = [live |-> yes, tables |-> {}, map |-> map]
    BY ONLY <2>2
  <2>. QED
    BY <2>1, <2>3
<1>6. NoDir.live = FALSE /\ NoDir.map = <<>> /\ DOMAIN <<>> = {}
  BY DEF NoDir
<1>. QED
  BY <1>3, <1>4, <1>5, <1>6

LEMMA DestroySound ==
    ASSUME NEW m, NEW sees, Sound(m, sees), NEW d \in Dirs,
           NEW sees2, \A e \in Dirs \ {d} : sees2[e] = sees[e]
    PROVE  LET n == Destroy(m, d) IN
           /\ Sound(n, sees2) /\ n.ok = m.ok /\ n.dirs[d] = NoDir
           /\ \A e \in Dirs \ {d} : n.dirs[e] = m.dirs[e]
<1>1. PICK n, gone : /\ n = Destroy(m, d)
                     /\ gone = {FrameIn(m, d, v) : v \in MappedIn(m, d)}
  OBVIOUS
<1>2. m \in Memory
  BY DEF Sound
<1>3. {e.frame : e \in {m.dirs[d].map[v] : v \in DOMAIN m.dirs[d].map}} = gone
  BY <1>1 DEF FrameIn, MappedIn
<1>4. n = [ok |-> m.ok, used |-> m.used \ gone, data |-> m.data,
           dirs |-> [m.dirs EXCEPT ![d] = NoDir]]
  <2>1. n = [m EXCEPT !.used = m.used \ gone, !.dirs[d] = NoDir]
    BY <1>1, <1>3 DEF Destroy
  <2>2. PICK used, dir : used = m.used \ gone /\ dir = NoDir
    OBVIOUS
  <2>3. n = [m EXCEPT !.used = used, !.dirs[d] = dir]
    BY <2>1, <2>2
  <2>4. n = [ok |-> m.ok, used |-> used, data |-> m.data, dirs |-> [m.dirs EXCEPT ![d] = dir]]
    BY ONLY <1>2, <2>3, d \in Dirs, NewEntry
  <2>. QED
    BY <2>2, <2>4
<1>5. /\ m.data \in [Frames -> Writers] /\ m.dirs \in [Dirs -> Space]
      /\ m.used \in SUBSET Frames /\ m.ok \in BOOLEAN
  BY <1>2 DEF Memory
<1>6. /\ n.ok = m.ok /\ n.used = m.used \ gone /\ n.data = m.data
      /\ n.dirs = [m.dirs EXCEPT ![d] = NoDir]
  BY <1>4
<1>7. n \in Memory
  BY <1>4, <1>5, EmptySpace DEF Memory
<1>8. n.dirs[d] = NoDir /\ \A e \in Dirs \ {d} : n.dirs[e] = m.dirs[e]
  BY <1>5, <1>6
<1>9. MappedIn(n, d) = {}
  BY <1>8, EmptySpace DEF MappedIn
<1>10. \A e \in Dirs \ {d} : /\ MappedIn(n, e) = MappedIn(m, e)
                             /\ \A u \in MappedIn(m, e) : FrameIn(n, e, u) = FrameIn(m, e, u)
  BY <1>8 DEF MappedIn, FrameIn
<1>11. ASSUME NEW e \in Dirs, NEW u \in MappedIn(n, e)
       PROVE  /\ e # d /\ u \in MappedIn(m, e) /\ FrameIn(n, e, u) = FrameIn(m, e, u)
              /\ FrameIn(m, e, u) \notin gone
  <2>1. e # d /\ u \in MappedIn(m, e) /\ FrameIn(n, e, u) = FrameIn(m, e, u)
    BY <1>9, <1>10
  <2>2. ASSUME NEW v \in MappedIn(m, d) PROVE FrameIn(m, e, u) # FrameIn(m, d, v)
    BY <2>1 DEF Sound, PagesApart
  <2>. QED
    BY <1>1, <2>1, <2>2
<1>12. ASSUME NEW e \in Dirs, NEW u \in MappedIn(n, e) PROVE PageSound(n, sees2, e, u)
  <2>1. PageSound(m, sees, e, u) /\ sees2[e] = sees[e]
    BY <1>11 DEF Sound
  <2>2. n.dirs[e].tables = m.dirs[e].tables
    BY <1>8, <1>11
  <2>. QED
    BY <1>6, <1>11, <2>1, <2>2 DEF PageSound
<1>13. ASSUME NEW e \in Dirs, NEW g \in Dirs, NEW u \in MappedIn(n, e), NEW x \in MappedIn(n, g)
       PROVE  PagesApart(n, e, u, g, x)
  <2>1. PagesApart(m, e, u, g, x)
    BY <1>11 DEF Sound
  <2>. QED
    BY <1>11, <2>1 DEF PagesApart
<1>14. ASSUME NEW g \in n.used \ {TrampolineFrame} PROVE FrameMapped(n, g)
  <2>1. FrameMapped(m, g) /\ g \notin gone
    BY <1>6 DEF Sound
  <2>2. PICK e, u : e \in Dirs /\ u \in MappedIn(m, e) /\ FrameIn(m, e, u) = g
    BY <2>1 DEF FrameMapped
  <2>3. e # d
    BY <1>1, <2>1, <2>2
  <2>. QED
    BY <1>10, <2>2, <2>3 DEF FrameMapped
<1>15. TrampolineFrame \in n.used
  <2>1. TrampolineFrame \notin gone
    BY <1>1 DEF Sound, PageSound
  <2>. QED
    BY <1>6, <2>1 DEF Sound
<1>16. \A e \in Dirs : ~n.dirs[e].live => MappedIn(n, e) = {}
  BY <1>8, <1>9, <1>10 DEF Sound
<1>17. Sound(n, sees2)
  BY <1>7, <1>12, <1>13, <1>14, <1>15, <1>16 DEF Sound
<1>. QED
  BY <1>1, <1>6, <1>8, <1>17

LEMMA CreateSound ==
    ASSUME NEW m, NEW sees, Sound(m, sees), NEW d \in Dirs, ~m.dirs[d].live,
           NEW sees2, \A e \in Dirs \ {d} : sees2[e] = sees[e]
    PROVE  LET n == CreateSpace(m, d) IN
           /\ Sound(n, sees2) /\ n.ok = m.ok /\ n.dirs[d].live /\ MappedIn(n, d) = {}
           /\ \A e \in Dirs \ {d} : n.dirs[e] = m.dirs[e]
<1>1. PICK n, dir : n = CreateSpace(m, d) /\ dir = [live |-> TRUE, tables |-> {}, map |-> <<>>]
  OBVIOUS
<1>2. m \in Memory
  BY DEF Sound
<1>3. n = [ok |-> m.ok, used |-> m.used, data |-> m.data, dirs |-> [m.dirs EXCEPT ![d] = dir]]
  <2>1. n = [m EXCEPT !.dirs[d] = dir]
    BY <1>1, EmptySpace DEF CreateSpace
  <2>2. PICK ok, used, dat, dirs : ok = m.ok /\ used = m.used /\ dat = m.data /\ dirs = m.dirs
    OBVIOUS
  <2>3. m = [ok |-> ok, used |-> used, data |-> dat, dirs |-> dirs]
    BY <1>2, <2>2 DEF Memory
  <2>4. PICK dirs2 : dirs2 = [dirs EXCEPT ![d] = dir]
    OBVIOUS
  <2>5. n = [m EXCEPT !.dirs = dirs2]
    BY <2>1, <2>2, <2>4
  <2>6. n = [ok |-> ok, used |-> used, data |-> dat, dirs |-> dirs2]
    BY ONLY <2>3, <2>5
  <2>. QED
    BY <2>2, <2>4, <2>6
<1>4. /\ m.data \in [Frames -> Writers] /\ m.dirs \in [Dirs -> Space]
      /\ m.used \in SUBSET Frames /\ m.ok \in BOOLEAN
  BY <1>2 DEF Memory
<1>5. /\ n.ok = m.ok /\ n.used = m.used /\ n.data = m.data
      /\ n.dirs = [m.dirs EXCEPT ![d] = dir]
  BY <1>3
<1>6. n \in Memory
  BY <1>1, <1>3, <1>4, EmptySpace DEF Memory
<1>7. n.dirs[d] = dir /\ \A e \in Dirs \ {d} : n.dirs[e] = m.dirs[e]
  BY <1>4, <1>5
<1>8. MappedIn(n, d) = {} /\ dir.live = TRUE
  BY <1>1, <1>7 DEF MappedIn
<1>9. \A e \in Dirs \ {d} : /\ MappedIn(n, e) = MappedIn(m, e)
                            /\ \A u \in MappedIn(m, e) : FrameIn(n, e, u) = FrameIn(m, e, u)
  BY <1>7 DEF MappedIn, FrameIn
<1>10. ASSUME NEW e \in Dirs, NEW u \in MappedIn(n, e)
       PROVE  e # d /\ u \in MappedIn(m, e) /\ FrameIn(n, e, u) = FrameIn(m, e, u)
  BY <1>8, <1>9
<1>11. ASSUME NEW e \in Dirs, NEW u \in MappedIn(n, e) PROVE PageSound(n, sees2, e, u)
  <2>1. PageSound(m, sees, e, u) /\ sees2[e] = sees[e] /\ n.dirs[e].tables = m.dirs[e].tables
    BY <1>7, <1>10 DEF Sound
  <2>. QED
    BY <1>5, <1>10, <2>1 DEF PageSound
<1>12. ASSUME NEW e \in Dirs, NEW g \in Dirs, NEW u \in MappedIn(n, e), NEW x \in MappedIn(n, g)
       PROVE  PagesApart(n, e, u, g, x)
  <2>1. PagesApart(m, e, u, g, x)
    BY <1>10 DEF Sound
  <2>. QED
    BY <1>10, <2>1 DEF PagesApart
<1>13. ASSUME NEW g \in n.used \ {TrampolineFrame} PROVE FrameMapped(n, g)
  <2>1. FrameMapped(m, g)
    BY <1>5 DEF Sound
  <2>2. PICK e, u : e \in Dirs /\ u \in MappedIn(m, e) /\ FrameIn(m, e, u) = g
    BY <2>1 DEF FrameMapped
  <2>3. e # d
    BY <2>2 DEF Sound
  <2>. QED
    BY <1>9, <2>2, <2>3 DEF FrameMapped
<1>14. \A e \in Dirs : ~n.dirs[e].live => MappedIn(n, e) = {}
  BY <1>7, <1>8, <1>9 DEF Sound
<1>15. TrampolineFrame \in n.used
  BY <1>5 DEF Sound
<1>16. Sound(n, sees2)
  BY <1>6, <1>11, <1>12, <1>13, <1>14, <1>15 DEF Sound
<1>. QED
  BY <1>1, <1>5, <1>7, <1>8, <1>16

-----------------------------------------------------------------------------
(* The loops over pages.                                                   *)

\* f[v] is the memory after page v of MapUserPages.
MapUserRun(f, m, d, from, to, w) ==
    /\ f[from - 1] = m /\ f[to - 1] = MapUserPages(m, d, from, to, w)
    /\ \A v \in from .. to - 1 : f[v] = MapUser(f[v - 1], d, v, w)

LEMMA MapUserLoop ==
    ASSUME NEW m \in Memory, NEW d \in Dirs, NEW from \in Int, NEW to \in Int, from < to,
           from .. to - 1 \subseteq UserPages, NEW w \in BOOLEAN
    PROVE  \E f : MapUserRun(f, m, d, from, to, w)
<1>1. PICK G : G = [z \in Memory \X (from .. to - 1) |-> MapUser(z[1], d, z[2], w)]
  OBVIOUS
<1>2. G \in [Memory \X (from .. to - 1) -> Memory]
  BY <1>1, MapUserTyped
<1>0. \E f : IsRun(f, Memory, m, from, to, G)
  BY <1>2, Runs
<1>3. PICK f : /\ f \in [from - 1 .. to - 1 -> Memory] /\ f[from - 1] = m
               /\ \A v \in from .. to - 1 : f[v] = G[<<f[v - 1], v>>]
  BY <1>0 DEF IsRun
<1>4. ASSUME NEW v \in from .. to - 1 PROVE f[v] = MapUser(f[v - 1], d, v, w)
  <2>1. v - 1 \in from - 1 .. to - 1
    OBVIOUS
  <2>2. f[v - 1] \in Memory
    BY <1>3, <2>1
  <2>. QED
    BY <1>1, <1>3, <2>2
<1>5. f = [v \in from - 1 .. to - 1 |-> IF v < from THEN m ELSE MapUser(f[v - 1], d, v, w)]
  <2>1. ASSUME NEW v \in from - 1 .. to - 1
        PROVE  f[v] = IF v < from THEN m ELSE MapUser(f[v - 1], d, v, w)
    <3>1. v = from - 1 \/ v \in from .. to - 1
      OBVIOUS
    <3>. QED
      BY <1>3, <1>4, <3>1
  <2>. QED
    BY <1>3, <2>1
<1>6. PICK after : after = CHOOSE g : g = [v \in from - 1 .. to - 1 |->
                     IF v < from THEN m ELSE MapUser(g[v - 1], d, v, w)]
  OBVIOUS
<1>7. after = [v \in from - 1 .. to - 1 |-> IF v < from THEN m ELSE MapUser(after[v - 1], d, v, w)]
  BY <1>5, <1>6
<1>8. MapUserPages(m, d, from, to, w) = after[to - 1]
  BY <1>6 DEF MapUserPages, Loop
<1>9. \A v \in from - 1 .. to - 1 :
        after[v] = IF v < from THEN m ELSE MapUser(after[v - 1], d, v, w)
  BY <1>7
<1>10. from - 1 \in from - 1 .. to - 1 /\ from - 1 < from
       /\ \A v \in from .. to - 1 : v \in from - 1 .. to - 1 /\ ~(v < from)
  OBVIOUS
<1>. QED
  BY <1>8, <1>9, <1>10 DEF MapUserRun

LEMMA MapUserPagesSound ==
    ASSUME NEW m, NEW sees, Sound(m, sees), NEW d \in Dirs, m.dirs[d].live,
           NEW from \in Int, NEW to \in Int, from .. to - 1 \subseteq UserPages, NEW w \in BOOLEAN
    PROVE  LET n == MapUserPages(m, d, from, to, w) IN
           /\ Sound(n, sees) /\ OnlyDir(m, n, d)
           /\ MappedIn(m, d) \subseteq MappedIn(n, d)
           /\ n.ok => m.ok /\ from .. to - 1 \subseteq MappedIn(n, d)
<1>1. CASE to <= from
  <2>1. MapUserPages(m, d, from, to, w) = m
    BY <1>1 DEF MapUserPages, Loop
  <2>2. from .. to - 1 = {}
    BY <1>1
  <2>. QED
    BY <2>1, <2>2 DEF OnlyDir
<1>2. CASE from < to
  <2>1. m \in Memory
    BY DEF Sound
  <2>0. PICK f : MapUserRun(f, m, d, from, to, w)
    BY <1>2, <2>1, MapUserLoop
  <2>2. /\ f[from - 1] = m /\ f[to - 1] = MapUserPages(m, d, from, to, w)
        /\ \A v \in from .. to - 1 : f[v] = MapUser(f[v - 1], d, v, w)
    BY <2>0 DEF MapUserRun
  <2>. DEFINE Good(n, v) == /\ Sound(n, sees) /\ OnlyDir(m, n, d)
                            /\ MappedIn(m, d) \subseteq MappedIn(n, d)
                            /\ n.ok => m.ok /\ from .. v \subseteq MappedIn(n, d)
              S == {v \in Int : Good(f[v], v)}
  <2>3. from - 1 \in S
    <3>1. from .. from - 1 = {}
      OBVIOUS
    <3>2. Good(m, from - 1)
      BY <3>1 DEF OnlyDir
    <3>. QED
      BY <2>2, <3>2
  <2>4. ASSUME NEW v \in from .. to - 1, v - 1 \in S PROVE v \in S
    <3>1. PICK a, b : a = f[v - 1] /\ b = f[v]
      OBVIOUS
    <3>2. Good(a, v - 1) /\ a.dirs[d].live /\ v \in UserPages
      BY <2>4, <3>1 DEF OnlyDir
    <3>3. b = MapUser(a, d, v, w)
      BY <2>2, <3>1
    <3>4. /\ Sound(b, sees) /\ OnlyDir(a, b, d)
          /\ MappedIn(a, d) \subseteq MappedIn(b, d)
          /\ b.ok => a.ok /\ v \in MappedIn(b, d)
      BY <3>2, <3>3, MapUserSound
    <3>5. OnlyDir(m, b, d)
      BY <3>2, <3>4 DEF OnlyDir
    <3>6. from .. v = (from .. v - 1) \cup {v}
      OBVIOUS
    <3>7. Good(b, v)
      BY <3>2, <3>4, <3>5, <3>6
    <3>. QED
      BY <3>1, <3>7
  <2>5. to - 1 \in S
    <3>1. from - 1 .. to - 1 \subseteq S
      <4>. HIDE DEF S
      <4>. QED
        BY ONLY from \in Int, to \in Int, <1>2, <2>3, <2>4, FromTo
    <3>. QED
      BY <1>2, <3>1
  <2>. QED
    BY <2>2, <2>5
<1>. QED
  BY <1>1, <1>2

\* The loop over one page is one step.
LEMMA UnmapOne ==
    ASSUME NEW m, NEW d, NEW v \in Int
    PROVE  UnmapPages(m, d, v, v + 1) = UnmapPage(m, d, v)
<1>1. PICK f : f = [u \in v - 1 .. (v + 1) - 1 |-> IF u < v THEN m ELSE UnmapPage(m, d, u)]
  OBVIOUS
<1>2. f[v - 1] = m
  BY <1>1
<1>3. f = [u \in v - 1 .. (v + 1) - 1 |-> IF u < v THEN m ELSE UnmapPage(f[u - 1], d, u)]
  <2>1. ASSUME NEW u \in v - 1 .. (v + 1) - 1
        PROVE  (IF u < v THEN m ELSE UnmapPage(m, d, u))
                 = (IF u < v THEN m ELSE UnmapPage(f[u - 1], d, u))
    <3>1. u < v \/ u = v
      OBVIOUS
    <3>. QED
      BY <1>2, <3>1
  <2>. QED
    BY <1>1, <2>1
<1>4. PICK after : after = CHOOSE g : g = [u \in v - 1 .. (v + 1) - 1 |->
                     IF u < v THEN m ELSE UnmapPage(g[u - 1], d, u)]
  OBVIOUS
<1>5. after = [u \in v - 1 .. (v + 1) - 1 |-> IF u < v THEN m ELSE UnmapPage(after[u - 1], d, u)]
  BY <1>3, <1>4
<1>6. UnmapPages(m, d, v, v + 1) = after[(v + 1) - 1]
  BY <1>4 DEF UnmapPages, Loop
<1>7. after[v - 1] = m /\ after[v] = UnmapPage(after[v - 1], d, v)
  BY <1>5
<1>. QED
  BY <1>6, <1>7

\* f[i] is the memory after cleared frames came to the pages p[from .. i].
PagesRun(f, m, d, from, to, p) ==
    f = [v \in from - 1 .. to - 1 |->
           IF v < from THEN m ELSE MapPage(f[v - 1], d, p[v], TRUE, Zero)]

LEMMA PagesRunExists ==
    ASSUME NEW m \in Memory, NEW d \in Dirs, NEW from \in Int, NEW to \in Int, from < to,
           NEW p \in [from .. to - 1 -> UserPages]
    PROVE  \E f : PagesRun(f, m, d, from, to, p)
<1>1. PICK G : G = [z \in Memory \X (from .. to - 1) |-> MapPage(z[1], d, p[z[2]], TRUE, Zero)]
  OBVIOUS
<1>2. G \in [Memory \X (from .. to - 1) -> Memory]
  <2>1. ASSUME NEW z \in Memory \X (from .. to - 1)
        PROVE  MapPage(z[1], d, p[z[2]], TRUE, Zero) \in Memory
    <3>1. z[1] \in Memory /\ p[z[2]] \in UserPages /\ Zero \in Writers
      BY DEF Writers
    <3>. QED
      BY <3>1, MapTyped
  <2>. QED
    BY <1>1, <2>1
<1>3. \E f : IsRun(f, Memory, m, from, to, G)
  BY <1>2, Runs
<1>4. PICK f : /\ f \in [from - 1 .. to - 1 -> Memory] /\ f[from - 1] = m
               /\ \A v \in from .. to - 1 : f[v] = G[<<f[v - 1], v>>]
  BY <1>3 DEF IsRun
<1>5. ASSUME NEW v \in from .. to - 1 PROVE f[v] = MapPage(f[v - 1], d, p[v], TRUE, Zero)
  <2>1. v - 1 \in from - 1 .. to - 1
    OBVIOUS
  <2>2. f[v - 1] \in Memory
    BY <1>4, <2>1
  <2>. QED
    BY <1>1, <1>4, <2>2
<1>6. ASSUME NEW v \in from - 1 .. to - 1
      PROVE  f[v] = IF v < from THEN m ELSE MapPage(f[v - 1], d, p[v], TRUE, Zero)
  <2>1. (v = from - 1 /\ v < from) \/ (v \in from .. to - 1 /\ ~(v < from))
    OBVIOUS
  <2>. QED
    BY <1>4, <1>5, <2>1
<1>. QED
  BY <1>4, <1>6 DEF PagesRun

\* What such a loop starts with, and its steps.
PagesSteps(f, m, d, from, to, p) ==
    /\ f[from - 1] = m
    /\ \A v \in from .. to - 1 : f[v] = MapPage(f[v - 1], d, p[v], TRUE, Zero)

LEMMA PagesRunSteps ==
    ASSUME NEW f, NEW m, NEW d, NEW from \in Int, NEW to \in Int, from < to, NEW p,
           PagesRun(f, m, d, from, to, p)
    PROVE  PagesSteps(f, m, d, from, to, p)
<1>1. \A v \in from - 1 .. to - 1 :
        f[v] = IF v < from THEN m ELSE MapPage(f[v - 1], d, p[v], TRUE, Zero)
  BY DEF PagesRun
<1>2. /\ from - 1 \in from - 1 .. to - 1 /\ from - 1 < from
      /\ \A v \in from .. to - 1 : v \in from - 1 .. to - 1 /\ ~(v < from)
  OBVIOUS
<1>. QED
  BY <1>1, <1>2 DEF PagesSteps

LEMMA PagesRunTyped ==
    ASSUME NEW f, NEW m \in Memory, NEW d \in Dirs, NEW from \in Int, NEW to \in Int, from < to,
           NEW p \in [from .. to - 1 -> UserPages], PagesRun(f, m, d, from, to, p)
    PROVE  f[to - 1] \in Memory
<1>. DEFINE S == {v \in Int : f[v] \in Memory}
<1>1. /\ f[from - 1] = m
      /\ \A v \in from .. to - 1 : f[v] = MapPage(f[v - 1], d, p[v], TRUE, Zero)
  <2>1. PagesSteps(f, m, d, from, to, p)
    BY PagesRunSteps
  <2>. QED
    BY <2>1 DEF PagesSteps
<1>2. from - 1 \in S
  BY <1>1
<1>3. ASSUME NEW v \in from .. to - 1, v - 1 \in S PROVE v \in S
  <2>1. f[v - 1] \in Memory /\ p[v] \in UserPages /\ Zero \in Writers
    BY <1>3 DEF Writers
  <2>2. MapPage(f[v - 1], d, p[v], TRUE, Zero) \in Memory
    BY <2>1, MapTyped
  <2>3. f[v] = MapPage(f[v - 1], d, p[v], TRUE, Zero)
    BY <1>1
  <2>4. f[v] \in Memory
    BY ONLY <2>2, <2>3
  <2>5. v \in Int
    OBVIOUS
  <2>. QED
    BY <2>4, <2>5
<1>4. from - 1 .. to - 1 \subseteq S
  <2>. HIDE DEF S
  <2>. QED
    BY ONLY from \in Int, to \in Int, from < to, <1>2, <1>3, FromTo
<1>. QED
  BY <1>4

LEMMA PagesRunSound ==
    ASSUME NEW m, NEW sees, Sound(m, sees), NEW d \in Dirs, m.dirs[d].live,
           NEW from \in Int, NEW to \in Int, from < to,
           NEW p \in [from .. to - 1 -> UserPages],
           \A i, j \in from .. to - 1 : p[i] = p[j] => i = j,
           \A i \in from .. to - 1 : p[i] \notin MappedIn(m, d),
           NEW f, PagesRun(f, m, d, from, to, p)
    PROVE  LET n == f[to - 1] IN
           /\ Sound(n, sees) /\ OnlyDir(m, n, d)
           /\ MappedIn(n, d) \subseteq MappedIn(m, d) \cup {p[i] : i \in from .. to - 1}
<1>. DEFINE Good(n, v) == /\ Sound(n, sees) /\ OnlyDir(m, n, d)
                          /\ MappedIn(n, d) \subseteq MappedIn(m, d) \cup {p[i] : i \in from .. v}
            S == {v \in Int : Good(f[v], v)}
<1>1. /\ f[from - 1] = m
      /\ \A v \in from .. to - 1 : f[v] = MapPage(f[v - 1], d, p[v], TRUE, Zero)
  <2>1. PagesSteps(f, m, d, from, to, p)
    BY PagesRunSteps
  <2>. QED
    BY <2>1 DEF PagesSteps
<1>2. from - 1 \in S
  <2>1. Good(m, from - 1)
    BY DEF OnlyDir
  <2>. QED
    BY <1>1, <2>1
<1>3. ASSUME NEW v \in from .. to - 1, v - 1 \in S PROVE v \in S
  <2>1. PICK a, b, u : a = f[v - 1] /\ b = f[v] /\ u = p[v]
    OBVIOUS
  <2>2. Good(a, v - 1) /\ a.dirs[d].live /\ u \in UserPages
    BY <1>3, <2>1 DEF OnlyDir
  <2>3. \A i \in from .. v - 1 : i \in from .. to - 1 /\ i # v
    OBVIOUS
  <2>4. u \notin MappedIn(a, d)
    BY <2>1, <2>2, <2>3
  <2>5. b = MapPage(a, d, u, TRUE, Zero) /\ Zero \in Writers /\ Zero \in {Zero} \cup sees[d]
    BY <1>1, <2>1 DEF Writers
  <2>6. Sound(b, sees) /\ OnlyDir(a, b, d) /\ MappedIn(b, d) \subseteq MappedIn(a, d) \cup {u}
    BY <2>2, <2>4, <2>5, MapSound
  <2>7. OnlyDir(m, b, d)
    BY <2>2, <2>6 DEF OnlyDir
  <2>8. from .. v = (from .. v - 1) \cup {v}
    OBVIOUS
  <2>9. {p[i] : i \in from .. v} = {p[i] : i \in from .. v - 1} \cup {u}
    BY <2>1, <2>8
  <2>10. Good(b, v)
    BY <2>2, <2>6, <2>7, <2>9
  <2>. QED
    BY <2>1, <2>10
<1>4. to - 1 \in S
  <2>1. from - 1 .. to - 1 \subseteq S
    <3>. HIDE DEF S
    <3>. QED
      BY ONLY from \in Int, to \in Int, from < to, <1>2, <1>3, FromTo
  <2>. QED
    BY <2>1
<1>. QED
  BY <1>4

-----------------------------------------------------------------------------
(* The loader.                                                             *)

PagesOf(seg)  == seg[1] .. seg[2]
PagesIn(segs) == UNION {PagesOf(segs[i]) : i \in DOMAIN segs}

\* f is the loop of LoadSegment, and p the pages it maps.
SegmentRun(f, m, d, seg, from, to, p) ==
    PagesRun(f, m, d, from, to, p) /\ LoadSegment(m, d, seg) = f[to - 1]

LEMMA LoadSegmentRun ==
    ASSUME NEW m \in Memory, NEW d \in Dirs, NEW seg, NEW from \in Int, NEW to \in Int, from < to,
           from = seg[1], to = seg[2] + 1, NEW p \in [from .. to - 1 -> UserPages],
           \A v \in from .. to - 1 : p[v] = v
    PROVE  \E f : SegmentRun(f, m, d, seg, from, to, p)
<1>1. \E f : PagesRun(f, m, d, from, to, p)
  BY PagesRunExists
<1>2. ASSUME NEW g, NEW v \in from - 1 .. to - 1
      PROVE  (IF v < from THEN m ELSE MapPage(g[v - 1], d, p[v], TRUE, Zero))
              = (IF v < from THEN m ELSE MapPage(g[v - 1], d, v, TRUE, Zero))
  <2>1. v < from \/ p[v] = v
    OBVIOUS
  <2>. QED
    BY <2>1
<1>3. PICK f : f = [v \in from - 1 .. to - 1 |->
                      IF v < from THEN m ELSE MapPage(f[v - 1], d, v, TRUE, Zero)]
  <2>1. PICK f : PagesRun(f, m, d, from, to, p)
    BY <1>1
  <2>2. f = [v \in from - 1 .. to - 1 |->
               IF v < from THEN m ELSE MapPage(f[v - 1], d, v, TRUE, Zero)]
    BY <1>2, <2>1 DEF PagesRun
  <2>. QED
    BY <2>2
<1>4. PICK after : after = CHOOSE g : g = [v \in from - 1 .. to - 1 |->
                     IF v < from THEN m ELSE MapPage(g[v - 1], d, v, TRUE, Zero)]
  OBVIOUS
<1>5. after = [v \in from - 1 .. to - 1 |->
                 IF v < from THEN m ELSE MapPage(after[v - 1], d, v, TRUE, Zero)]
  BY <1>3, <1>4
<1>6. LoadSegment(m, d, seg) = after[to - 1]
  BY <1>4 DEF LoadSegment, Loop
<1>7. PagesRun(after, m, d, from, to, p)
  BY <1>2, <1>5 DEF PagesRun
<1>. QED
  BY <1>6, <1>7 DEF SegmentRun

LEMMA SegmentBounds ==
    ASSUME NEW seg \in Pages \X Pages, NEW from, NEW to, from = seg[1], to = seg[2] + 1
    PROVE  from \in Int /\ to \in Int /\ from .. to - 1 = PagesOf(seg)
<1>1. seg[1] \in Int /\ seg[2] \in Int
  BY MemoryAssumption DEF Pages
<1>2. (seg[2] + 1) - 1 = seg[2]
  BY <1>1
<1>. QED
  BY <1>1, <1>2 DEF PagesOf

LEMMA LoadSegmentSound ==
    ASSUME NEW m, NEW sees, Sound(m, sees), NEW d \in Dirs, m.dirs[d].live,
           NEW seg \in Pages \X Pages, PagesOf(seg) \subseteq UserPages,
           PagesOf(seg) \cap MappedIn(m, d) = {}
    PROVE  LET n == LoadSegment(m, d, seg) IN
           /\ Sound(n, sees) /\ OnlyDir(m, n, d)
           /\ MappedIn(n, d) \subseteq MappedIn(m, d) \cup PagesOf(seg)
<1>1. PICK from, to : from = seg[1] /\ to = seg[2] + 1
  OBVIOUS
<1>2. from \in Int /\ to \in Int /\ from .. to - 1 = PagesOf(seg)
  BY <1>1, SegmentBounds
<1>3. CASE to <= from
  <2>1. LoadSegment(m, d, seg) = m
    BY <1>1, <1>3 DEF LoadSegment, Loop
  <2>. QED
    BY <2>1 DEF OnlyDir
<1>4. CASE from < to
  <2>1. PICK p : p = [v \in from .. to - 1 |-> v]
    OBVIOUS
  <2>2. p \in [from .. to - 1 -> UserPages] /\ \A i \in from .. to - 1 : p[i] = i
    BY <1>2, <2>1
  <2>3. PICK f : SegmentRun(f, m, d, seg, from, to, p)
    BY <1>1, <1>2, <1>4, <2>2, LoadSegmentRun DEF Sound
  <2>4. PICK n : n = f[to - 1]
    OBVIOUS
  <2>5. /\ \A i, j \in from .. to - 1 : p[i] = p[j] => i = j
        /\ \A i \in from .. to - 1 : p[i] \notin MappedIn(m, d)
    BY <1>2, <2>2
  <2>6. /\ Sound(n, sees) /\ OnlyDir(m, n, d)
        /\ MappedIn(n, d) \subseteq MappedIn(m, d) \cup {p[i] : i \in from .. to - 1}
    BY <1>2, <1>4, <2>2, <2>3, <2>4, <2>5, PagesRunSound DEF SegmentRun
  <2>7. {p[i] : i \in from .. to - 1} = PagesOf(seg)
    BY <1>2, <2>2
  <2>8. LoadSegment(m, d, seg) = n
    BY <2>3, <2>4 DEF SegmentRun
  <2>. QED
    BY <2>6, <2>7, <2>8
<1>. QED
  BY <1>2, <1>3, <1>4

LEMMA LoadSegmentTyped ==
    ASSUME NEW m \in Memory, NEW d \in Dirs, NEW seg \in Pages \X Pages,
           PagesOf(seg) \subseteq UserPages
    PROVE  LoadSegment(m, d, seg) \in Memory
<1>1. PICK from, to : from = seg[1] /\ to = seg[2] + 1
  OBVIOUS
<1>2. from \in Int /\ to \in Int /\ from .. to - 1 = PagesOf(seg)
  BY <1>1, SegmentBounds
<1>3. CASE to <= from
  BY <1>1, <1>3 DEF LoadSegment, Loop
<1>4. CASE from < to
  <2>1. PICK p : p = [v \in from .. to - 1 |-> v]
    OBVIOUS
  <2>2. p \in [from .. to - 1 -> UserPages] /\ \A i \in from .. to - 1 : p[i] = i
    BY <1>2, <2>1
  <2>3. PICK f : SegmentRun(f, m, d, seg, from, to, p)
    BY <1>1, <1>2, <1>4, <2>2, LoadSegmentRun
  <2>. QED
    BY <1>2, <1>4, <2>2, <2>3, PagesRunTyped DEF SegmentRun
<1>. QED
  BY <1>2, <1>3, <1>4

\* f[i] is the memory after segment i of LoadSegments.
SegmentsRun(f, m, d, segs, from, to) ==
    /\ f[from - 1] = m /\ f[to - 1] = LoadSegments(m, d, segs)
    /\ \A i \in from .. to - 1 : f[i] = LoadSegment(f[i - 1], d, segs[i])

LEMMA LoadSegmentsRun ==
    ASSUME NEW m \in Memory, NEW d \in Dirs, NEW segs \in Seq(Pages \X Pages),
           PagesIn(segs) \subseteq UserPages,
           NEW from \in Int, NEW to \in Int, from < to, from = 1, to = Len(segs) + 1
    PROVE  \E f : SegmentsRun(f, m, d, segs, from, to)
<1>1. PICK G : G = [z \in Memory \X (from .. to - 1) |-> LoadSegment(z[1], d, segs[z[2]])]
  OBVIOUS
<1>2. G \in [Memory \X (from .. to - 1) -> Memory]
  <2>1. ASSUME NEW z \in Memory \X (from .. to - 1)
        PROVE  LoadSegment(z[1], d, segs[z[2]]) \in Memory
    <3>1. PICK n, i : n = z[1] /\ i = z[2]
      OBVIOUS
    <3>2. n \in Memory /\ i \in 1 .. Len(segs)
      BY <3>1
    <3>3. segs[i] \in Pages \X Pages /\ PagesOf(segs[i]) \subseteq UserPages
      BY <3>2 DEF PagesIn
    <3>. QED
      BY <3>1, <3>2, <3>3, LoadSegmentTyped
  <2>. QED
    BY <1>1, <2>1
<1>3. \E f : IsRun(f, Memory, m, from, to, G)
  BY <1>2, Runs
<1>4. PICK f : /\ f \in [from - 1 .. to - 1 -> Memory] /\ f[from - 1] = m
               /\ \A v \in from .. to - 1 : f[v] = G[<<f[v - 1], v>>]
  BY <1>3 DEF IsRun
<1>5. ASSUME NEW v \in from .. to - 1 PROVE f[v] = LoadSegment(f[v - 1], d, segs[v])
  <2>1. v - 1 \in from - 1 .. to - 1
    OBVIOUS
  <2>2. f[v - 1] \in Memory
    BY <1>4, <2>1
  <2>. QED
    BY <1>1, <1>4, <2>2
<1>6. f = [v \in from - 1 .. to - 1 |-> IF v < from THEN m ELSE LoadSegment(f[v - 1], d, segs[v])]
  <2>1. ASSUME NEW v \in from - 1 .. to - 1
        PROVE  f[v] = IF v < from THEN m ELSE LoadSegment(f[v - 1], d, segs[v])
    <3>1. (v = from - 1 /\ v < from) \/ (v \in from .. to - 1 /\ ~(v < from))
      OBVIOUS
    <3>. QED
      BY <1>4, <1>5, <3>1
  <2>. QED
    BY <1>4, <2>1
<1>7. PICK after : after = CHOOSE g : g = [v \in from - 1 .. to - 1 |->
                     IF v < from THEN m ELSE LoadSegment(g[v - 1], d, segs[v])]
  OBVIOUS
<1>8. after = [v \in from - 1 .. to - 1 |->
                 IF v < from THEN m ELSE LoadSegment(after[v - 1], d, segs[v])]
  BY <1>6, <1>7
<1>9. LoadSegments(m, d, segs) = after[to - 1]
  BY <1>7 DEF LoadSegments, Loop
<1>10. \A v \in from - 1 .. to - 1 :
         after[v] = IF v < from THEN m ELSE LoadSegment(after[v - 1], d, segs[v])
  BY <1>8
<1>11. from - 1 \in from - 1 .. to - 1 /\ from - 1 < from
       /\ \A v \in from .. to - 1 : v \in from - 1 .. to - 1 /\ ~(v < from)
  OBVIOUS
<1>. QED
  BY <1>9, <1>10, <1>11 DEF SegmentsRun

Apart(segs) == \A i, j \in DOMAIN segs : i # j => PagesOf(segs[i]) \cap PagesOf(segs[j]) = {}

LEMMA LoadSegmentsSound ==
    ASSUME NEW m, NEW sees, Sound(m, sees), NEW d \in Dirs, m.dirs[d].live,
           NEW segs \in Seq(Pages \X Pages), Apart(segs), PagesIn(segs) \subseteq UserPages,
           PagesIn(segs) \cap MappedIn(m, d) = {}
    PROVE  LET n == LoadSegments(m, d, segs) IN
           /\ Sound(n, sees) /\ OnlyDir(m, n, d)
           /\ MappedIn(n, d) \subseteq MappedIn(m, d) \cup PagesIn(segs)
<1>1. PICK from, to : from = 1 /\ to = Len(segs) + 1
  OBVIOUS
<1>2. from \in Int /\ to \in Int /\ from .. to - 1 = DOMAIN segs
  <2>1. Len(segs) \in Nat /\ (Len(segs) + 1) - 1 = Len(segs) /\ DOMAIN segs = 1 .. Len(segs)
    OBVIOUS
  <2>. QED
    BY <1>1, <2>1
<1>3. CASE to <= from
  <2>1. LoadSegments(m, d, segs) = m
    BY <1>1, <1>3 DEF LoadSegments, Loop
  <2>. QED
    BY <2>1 DEF OnlyDir
<1>4. CASE from < to
  <2>0. PICK f : SegmentsRun(f, m, d, segs, from, to)
    BY <1>1, <1>2, <1>4, LoadSegmentsRun DEF Sound
  <2>1. /\ f[from - 1] = m /\ f[to - 1] = LoadSegments(m, d, segs)
        /\ \A i \in from .. to - 1 : f[i] = LoadSegment(f[i - 1], d, segs[i])
    BY <2>0 DEF SegmentsRun
  <2>. DEFINE Upto(i) == UNION {PagesOf(segs[j]) : j \in from .. i}
              Good(n, i) == /\ Sound(n, sees) /\ OnlyDir(m, n, d)
                            /\ MappedIn(n, d) \subseteq MappedIn(m, d) \cup Upto(i)
              S == {i \in Int : Good(f[i], i)}
  <2>2. from - 1 \in S
    <3>1. Good(m, from - 1)
      BY DEF OnlyDir
    <3>. QED
      BY <1>2, <2>1, <3>1
  <2>3. ASSUME NEW i \in from .. to - 1, i - 1 \in S PROVE i \in S
    <3>1. PICK a, b, seg : a = f[i - 1] /\ b = f[i] /\ seg = segs[i]
      OBVIOUS
    <3>2. Good(a, i - 1) /\ a.dirs[d].live
      BY <2>3, <3>1 DEF OnlyDir
    <3>3. seg \in Pages \X Pages /\ PagesOf(seg) \subseteq PagesIn(segs)
      BY <1>2, <3>1 DEF PagesIn
    <3>4. \A j \in from .. i - 1 : j \in DOMAIN segs /\ j # i
      BY <1>2
    <3>5. PagesOf(seg) \cap Upto(i - 1) = {}
      BY <1>2, <3>1, <3>4 DEF Apart
    <3>6. PagesOf(seg) \cap MappedIn(a, d) = {}
      BY <3>2, <3>3, <3>5
    <3>7. b = LoadSegment(a, d, seg)
      BY <2>1, <3>1
    <3>8. Sound(b, sees) /\ OnlyDir(a, b, d) /\ MappedIn(b, d) \subseteq MappedIn(a, d) \cup PagesOf(seg)
      BY <3>2, <3>3, <3>6, <3>7, LoadSegmentSound
    <3>9. OnlyDir(m, b, d)
      BY <3>2, <3>8 DEF OnlyDir
    <3>10. from .. i = (from .. i - 1) \cup {i}
      BY <1>2
    <3>11. Upto(i) = Upto(i - 1) \cup PagesOf(seg)
      BY <3>1, <3>10
    <3>12. Good(b, i)
      BY <3>2, <3>8, <3>9, <3>11
    <3>13. i \in Int
      BY <1>2
    <3>. QED
      BY <3>1, <3>12, <3>13
  <2>4. to - 1 \in S
    <3>1. from - 1 .. to - 1 \subseteq S
      <4>. HIDE DEF S
      <4>. QED
        BY ONLY <1>2, <1>4, <2>2, <2>3, FromTo
    <3>. QED
      BY <1>2, <1>4, <3>1
  <2>5. Upto(to - 1) = PagesIn(segs)
    BY <1>2 DEF PagesIn
  <2>. QED
    BY <2>1, <2>4, <2>5
<1>. QED
  BY <1>2, <1>3, <1>4

StackPages(base) == {StackPage(base, i) : i \in Offsets}
StackApart(base) ==
    /\ StackPages(base) \subseteq UserPages
    /\ \A i, j \in Offsets : StackPage(base, i) = StackPage(base, j) => i = j

LEMMA MapStackSound ==
    ASSUME NEW m, NEW sees, Sound(m, sees), NEW d \in Dirs, m.dirs[d].live,
           NEW base, StackApart(base), StackPages(base) \cap MappedIn(m, d) = {}
    PROVE  LET n == MapStack(m, d, base) IN Sound(n, sees) /\ OnlyDir(m, n, d)
<1>1. PICK from, to : from = 1 /\ to = PREFAULT_PAGES + 1
  OBVIOUS
<1>2. from \in Int /\ to \in Int /\ from .. to - 1 \subseteq Offsets
  <2>1. PREFAULT_PAGES \in Nat /\ STACK_SIZE \in Nat /\ PREFAULT_PAGES < STACK_SIZE
    BY MemoryAssumption
  <2>. QED
    BY <1>1, <2>1 DEF Offsets
<1>3. CASE to <= from
  <2>1. MapStack(m, d, base) = m
    BY <1>1, <1>3 DEF MapStack, Loop
  <2>. QED
    BY <2>1 DEF OnlyDir
<1>4. CASE from < to
  <2>1. PICK p : p = [i \in from .. to - 1 |-> StackPage(base, i)]
    OBVIOUS
  <2>2. \A i \in from .. to - 1 : p[i] = StackPage(base, i) /\ i \in Offsets
    BY <1>2, <2>1
  <2>3. p \in [from .. to - 1 -> UserPages]
    BY <2>1, <2>2 DEF StackApart, StackPages
  <2>4. /\ \A i, j \in from .. to - 1 : p[i] = p[j] => i = j
        /\ \A i \in from .. to - 1 : p[i] \notin MappedIn(m, d)
    BY <2>2 DEF StackApart, StackPages
  <2>5. ASSUME NEW g, NEW v \in from - 1 .. to - 1
        PROVE  (IF v < from THEN m ELSE MapPage(g[v - 1], d, p[v], TRUE, Zero))
                = (IF v < from THEN m ELSE MapPage(g[v - 1], d, StackPage(base, v), TRUE, Zero))
    <3>1. v < from \/ v \in from .. to - 1
      BY <1>2
    <3>2. v < from \/ p[v] = StackPage(base, v)
      BY <2>2, <3>1
    <3>. QED
      BY <3>2
  <2>6. PICK f : f = [v \in from - 1 .. to - 1 |->
                   IF v < from THEN m ELSE MapPage(f[v - 1], d, StackPage(base, v), TRUE, Zero)]
    <3>1. PICK f : PagesRun(f, m, d, from, to, p)
      BY <1>2, <1>4, <2>3, PagesRunExists DEF Sound
    <3>2. f = [v \in from - 1 .. to - 1 |->
                   IF v < from THEN m ELSE MapPage(f[v - 1], d, StackPage(base, v), TRUE, Zero)]
      BY <2>5, <3>1 DEF PagesRun
    <3>. QED
      BY <3>2
  <2>7. PICK after : after = CHOOSE g : g = [v \in from - 1 .. to - 1 |->
                   IF v < from THEN m ELSE MapPage(g[v - 1], d, StackPage(base, v), TRUE, Zero)]
    OBVIOUS
  <2>8. after = [v \in from - 1 .. to - 1 |->
                   IF v < from THEN m ELSE MapPage(after[v - 1], d, StackPage(base, v), TRUE, Zero)]
    BY <2>6, <2>7
  <2>9. MapStack(m, d, base) = after[to - 1]
    BY <1>1, <1>2, <1>4, <2>7 DEF MapStack, Loop
  <2>10. PagesRun(after, m, d, from, to, p)
    BY <2>5, <2>8 DEF PagesRun
  <2>11. PICK n : n = after[to - 1]
    OBVIOUS
  <2>12. Sound(n, sees) /\ OnlyDir(m, n, d)
    BY <1>2, <1>4, <2>3, <2>4, <2>10, <2>11, PagesRunSound
  <2>. QED
    BY <2>9, <2>11, <2>12
<1>. QED
  BY <1>2, <1>3, <1>4

\* What a program needs apart from each other, and from the trampoline: its
\* segments, its interpreter's, and the pages under each stack.
ImageApart(image, base) ==
    /\ image.segments \in Seq(Pages \X Pages) /\ image.interp \in Seq(Pages \X Pages)
    /\ Apart(image.segments) /\ Apart(image.interp)
    /\ PagesIn(image.segments) \cup PagesIn(image.interp) \subseteq UserPages
    /\ PagesIn(image.segments) \cap PagesIn(image.interp) = {}
    /\ StackApart(base)
    /\ StackPages(base) \cap (PagesIn(image.segments) \cup PagesIn(image.interp)) = {}

LEMMA LoadSound ==
    ASSUME NEW m, NEW sees, Sound(m, sees), NEW d \in Dirs, ~m.dirs[d].live,
           NEW sees2, \A e \in Dirs \ {d} : sees2[e] = sees[e],
           NEW image, NEW base, ImageApart(image, base)
    PROVE  LET n == Load(m, d, image, base) IN
           /\ Sound(n, sees2) /\ (n.ok => n.dirs[d].live) /\ (~n.ok => n.dirs[d] = NoDir)
           /\ \A e \in Dirs \ {d} : n.dirs[e] = m.dirs[e]
<1>1. PICK a, b, c, n : /\ a = CreateSpace(m, d) /\ b = LoadSegments(a, d, image.segments)
                        /\ c = LoadSegments(b, d, image.interp) /\ n = MapStack(c, d, base)
  OBVIOUS
<1>2. /\ Sound(a, sees2) /\ a.dirs[d].live /\ MappedIn(a, d) = {}
      /\ \A e \in Dirs \ {d} : a.dirs[e] = m.dirs[e]
  BY <1>1, CreateSound
<1>3. Sound(b, sees2) /\ OnlyDir(a, b, d) /\ MappedIn(b, d) \subseteq PagesIn(image.segments)
  BY <1>1, <1>2, LoadSegmentsSound DEF ImageApart
<1>4. /\ Sound(c, sees2) /\ OnlyDir(b, c, d)
      /\ MappedIn(c, d) \subseteq PagesIn(image.segments) \cup PagesIn(image.interp)
  <2>1. b.dirs[d].live /\ PagesIn(image.interp) \cap MappedIn(b, d) = {}
    BY <1>2, <1>3 DEF OnlyDir, ImageApart
  <2>. QED
    BY <1>1, <1>3, <2>1, LoadSegmentsSound DEF ImageApart
<1>5. Sound(n, sees2) /\ OnlyDir(c, n, d)
  <2>1. c.dirs[d].live /\ StackPages(base) \cap MappedIn(c, d) = {}
    BY <1>2, <1>3, <1>4 DEF OnlyDir, ImageApart
  <2>. QED
    BY <1>1, <1>4, <2>1, MapStackSound DEF ImageApart
<1>6. n.dirs[d].live /\ \A e \in Dirs \ {d} : n.dirs[e] = m.dirs[e]
  BY <1>2, <1>3, <1>4, <1>5 DEF OnlyDir
<1>7. Load(m, d, image, base) = IF n.ok THEN n ELSE Destroy(n, d)
  BY <1>1 DEF Load
<1>8. CASE n.ok
  BY <1>5, <1>6, <1>7, <1>8
<1>9. CASE ~n.ok
  <2>1. PICK o : o = Destroy(n, d)
    OBVIOUS
  <2>2. /\ Sound(o, sees2) /\ o.ok = n.ok /\ o.dirs[d] = NoDir
        /\ \A e \in Dirs \ {d} : o.dirs[e] = n.dirs[e]
    BY <1>5, <2>1, DestroySound
  <2>. QED
    BY <1>6, <1>7, <1>9, <2>1, <2>2
<1>. QED
  BY <1>8, <1>9

-----------------------------------------------------------------------------
(* The copy of a directory.                                                *)

LEMMA MapOther ==
    ASSUME NEW m \in Memory, NEW d \in Dirs, NEW s \in Dirs \ {d}, NEW v \in UserPages,
           NEW w \in BOOLEAN, NEW data \in Writers
    PROVE  MapPage(m, d, v, w, data).dirs[s] = m.dirs[s]
<1>1. PICK n : n = MapPage(m, d, v, w, data)
  OBVIOUS
<1>2. CASE ~m.ok
  BY <1>2 DEF MapPage
<1>3. CASE m.ok /\ Frames \ m.used = {}
  <2>1. n = [m EXCEPT !.ok = FALSE]
    BY <1>1, <1>3 DEF MapPage
  <2>2. n.dirs = m.dirs
    BY <2>1 DEF Memory
  <2>. QED
    BY <1>1, <2>2
<1>4. CASE m.ok /\ Frames \ m.used # {}
  <2>1. PICK f, dir : Placed(m, n, d, v, w, data, f, dir)
    BY <1>1, <1>4, MapShape
  <2>2. n.dirs = [m.dirs EXCEPT ![d] = dir]
    BY <2>1 DEF Placed
  <2>. QED
    BY <1>1, <2>2 DEF Memory
<1>. QED
  BY <1>2, <1>3, <1>4 DEF Memory

\* The page of s that d gets a copy of.
LEMMA ClonePageIs ==
    ASSUME NEW n \in Memory, NEW s \in Dirs, NEW d \in Dirs, NEW v \in MappedIn(n, s)
    PROVE  \E w \in BOOLEAN, data \in Writers :
              /\ data = n.data[FrameIn(n, s, v)]
              /\ ClonePage(n, s, d, v) = MapPage(n, d, v, w, data)
<1>1. n.dirs[s].map \in Maps /\ n.data \in [Frames -> Writers]
  BY DEF Memory, Space
<1>2. PICK S \in SUBSET Int : n.dirs[s].map \in [S -> Entry]
  BY <1>1 DEF Maps
<1>3. PICK e : e = n.dirs[s].map[v]
  OBVIOUS
<1>4. e \in Entry
  BY <1>2, <1>3 DEF MappedIn
<1>5. ClonePage(n, s, d, v) = MapPage(n, d, v, e.w, n.data[e.frame])
  BY <1>3 DEF ClonePage, MappedIn
<1>6. e.w \in BOOLEAN /\ n.data[e.frame] \in Writers /\ e.frame = FrameIn(n, s, v)
  BY <1>1, <1>3, <1>4 DEF Entry, FrameIn
<1>. QED
  BY <1>5, <1>6

Copied(m, s, d) == Loop(LAMBDA n, v : ClonePage(n, s, d, v), m, 0, LAST + 1)

\* f[v] is the memory after page v of the copy.
CloneRun(f, m, s, d, from, to) ==
    /\ f[from - 1] = m /\ f[to - 1] = Copied(m, s, d)
    /\ \A v \in from .. to - 1 : f[v] = ClonePage(f[v - 1], s, d, v)

LEMMA CloneLoop ==
    ASSUME NEW m \in Memory, NEW d \in Dirs, NEW s \in Dirs \ {d}, MappedIn(m, s) \subseteq UserPages,
           NEW from \in Int, NEW to \in Int, from < to, from = 0, to = LAST + 1
    PROVE  \E f : CloneRun(f, m, s, d, from, to)
<1>1. PICK X : X = {n \in Memory : n.dirs[s] = m.dirs[s]}
  OBVIOUS
<1>2. PICK G : G = [z \in X \X (from .. to - 1) |-> ClonePage(z[1], s, d, z[2])]
  OBVIOUS
<1>3. G \in [X \X (from .. to - 1) -> X]
  <2>1. ASSUME NEW n \in X, NEW v PROVE ClonePage(n, s, d, v) \in X
    <3>1. n \in Memory /\ n.dirs[s] = m.dirs[s]
      BY <1>1
    <3>2. CASE v \notin MappedIn(n, s)
      BY <3>2 DEF ClonePage, MappedIn
    <3>3. CASE v \in MappedIn(n, s)
      <4>1. PICK w \in BOOLEAN, data \in Writers : ClonePage(n, s, d, v) = MapPage(n, d, v, w, data)
        BY <3>1, <3>3, ClonePageIs
      <4>2. v \in UserPages
        BY <3>1, <3>3 DEF MappedIn
      <4>3. MapPage(n, d, v, w, data) \in Memory /\ MapPage(n, d, v, w, data).dirs[s] = n.dirs[s]
        BY <3>1, <4>2, MapTyped, MapOther
      <4>. QED
        BY <1>1, <3>1, <4>1, <4>3
    <3>. QED
      BY <3>2, <3>3
  <2>. QED
    BY <1>2, <2>1
<1>4. m \in X
  BY <1>1
<1>5. \E f : IsRun(f, X, m, from, to, G)
  BY ONLY from \in Int, to \in Int, from < to, <1>3, <1>4, Runs
<1>6. PICK f : /\ f \in [from - 1 .. to - 1 -> X] /\ f[from - 1] = m
               /\ \A v \in from .. to - 1 : f[v] = G[<<f[v - 1], v>>]
  BY <1>5 DEF IsRun
<1>7. ASSUME NEW v \in from .. to - 1 PROVE f[v] = ClonePage(f[v - 1], s, d, v)
  <2>1. v - 1 \in from - 1 .. to - 1
    OBVIOUS
  <2>2. f[v - 1] \in X
    BY <1>6, <2>1
  <2>. QED
    BY <1>2, <1>6, <2>2
<1>8. f = [v \in from - 1 .. to - 1 |-> IF v < from THEN m ELSE ClonePage(f[v - 1], s, d, v)]
  <2>1. ASSUME NEW v \in from - 1 .. to - 1
        PROVE  f[v] = IF v < from THEN m ELSE ClonePage(f[v - 1], s, d, v)
    <3>1. (v = from - 1 /\ v < from) \/ (v \in from .. to - 1 /\ ~(v < from))
      OBVIOUS
    <3>. QED
      BY <1>6, <1>7, <3>1
  <2>. QED
    BY <1>6, <2>1
<1>9. PICK after : after = CHOOSE g : g = [v \in from - 1 .. to - 1 |->
                     IF v < from THEN m ELSE ClonePage(g[v - 1], s, d, v)]
  OBVIOUS
<1>10. after = [v \in from - 1 .. to - 1 |-> IF v < from THEN m ELSE ClonePage(after[v - 1], s, d, v)]
  BY <1>8, <1>9
<1>11. Copied(m, s, d) = after[to - 1]
  BY <1>9 DEF Copied, Loop
<1>12. \A v \in from - 1 .. to - 1 :
         after[v] = IF v < from THEN m ELSE ClonePage(after[v - 1], s, d, v)
  BY <1>10
<1>13. from - 1 \in from - 1 .. to - 1 /\ from - 1 < from
       /\ \A v \in from .. to - 1 : v \in from - 1 .. to - 1 /\ ~(v < from)
  OBVIOUS
<1>. QED
  BY <1>11, <1>12, <1>13 DEF CloneRun

LEMMA CopiedSound ==
    ASSUME NEW a, NEW sees, Sound(a, sees), NEW d \in Dirs, a.dirs[d].live, MappedIn(a, d) = {},
           NEW s \in Dirs \ {d}, sees[d] = sees[s]
    PROVE  LET n == Copied(a, s, d) IN
           /\ Sound(n, sees) /\ OnlyDir(a, n, d)
           /\ n.ok => MappedIn(a, s) \subseteq MappedIn(n, d)
<1>1. PICK from, to : from = 0 /\ to = LAST + 1
  OBVIOUS
<1>2. from \in Int /\ to \in Int /\ from < to /\ from .. to - 1 = Pages
  <2>1. LAST \in Nat
    BY MemoryAssumption
  <2>2. (LAST + 1) - 1 = LAST
    BY <2>1
  <2>. QED
    BY <1>1, <2>1, <2>2 DEF Pages
<1>3. a \in Memory /\ MappedIn(a, s) \subseteq UserPages
  BY DEF Sound, PageSound
<1>4. PICK f : CloneRun(f, a, s, d, from, to)
  BY <1>1, <1>2, <1>3, CloneLoop
<1>5. /\ f[from - 1] = a /\ f[to - 1] = Copied(a, s, d)
      /\ \A v \in from .. to - 1 : f[v] = ClonePage(f[v - 1], s, d, v)
  BY <1>4 DEF CloneRun
<1>. DEFINE Good(n, v) == /\ Sound(n, sees) /\ OnlyDir(a, n, d)
                          /\ MappedIn(n, d) \subseteq from .. v
                          /\ n.ok => MappedIn(a, s) \cap (from .. v) \subseteq MappedIn(n, d)
            S == {v \in Int : Good(f[v], v)}
<1>6. from - 1 \in S
  <2>1. from .. from - 1 = {} /\ from - 1 \in Int
    BY <1>2
  <2>2. Good(a, from - 1)
    BY <2>1 DEF OnlyDir
  <2>. QED
    BY <1>5, <2>1, <2>2
<1>7. ASSUME NEW v \in from .. to - 1, v - 1 \in S PROVE v \in S
  <2>1. PICK n, o : n = f[v - 1] /\ o = f[v]
    OBVIOUS
  <2>2. Good(n, v - 1) /\ n.dirs[d].live /\ n \in Memory /\ n.dirs[s] = a.dirs[s]
    BY <1>7, <2>1 DEF OnlyDir, Sound
  <2>3. o = ClonePage(n, s, d, v)
    BY <1>5, <2>1
  <2>4. from .. v = (from .. v - 1) \cup {v} /\ v \notin from .. v - 1 /\ v \in Int
    BY <1>2
  <2>5. MappedIn(n, s) = MappedIn(a, s)
    BY <2>2 DEF MappedIn
  <2>6. CASE v \notin MappedIn(n, s)
    <3>1. o = n
      BY <2>3, <2>6 DEF ClonePage, MappedIn
    <3>2. Good(n, v)
      BY <2>2, <2>4, <2>5, <2>6
    <3>. QED
      BY <2>1, <2>4, <3>1, <3>2
  <2>7. CASE v \in MappedIn(n, s)
    <3>1. PICK w \in BOOLEAN, data \in Writers : /\ data = n.data[FrameIn(n, s, v)]
                                                 /\ o = MapPage(n, d, v, w, data)
      BY <2>2, <2>3, <2>7, ClonePageIs
    <3>2. v \in UserPages /\ data \in {Zero} \cup sees[d]
      BY <2>2, <2>7, <3>1 DEF Sound, PageSound
    <3>3. v \notin MappedIn(n, d)
      BY <2>2, <2>4
    <3>4. /\ Sound(o, sees) /\ OnlyDir(n, o, d)
          /\ MappedIn(n, d) \subseteq MappedIn(o, d)
          /\ MappedIn(o, d) \subseteq MappedIn(n, d) \cup {v}
          /\ o.ok => n.ok /\ v \in MappedIn(o, d)
      BY <2>2, <3>1, <3>2, <3>3, MapSound
    <3>5. OnlyDir(a, o, d)
      BY <2>2, <3>4 DEF OnlyDir
    <3>6. Good(o, v)
      BY <2>2, <2>4, <3>4, <3>5
    <3>. QED
      BY <2>1, <2>4, <3>6
  <2>. QED
    BY <2>6, <2>7
<1>8. to - 1 \in S
  <2>1. from - 1 .. to - 1 \subseteq S
    <3>. HIDE DEF S
    <3>. QED
      BY ONLY <1>2, <1>6, <1>7, FromTo
  <2>. QED
    BY <1>2, <2>1
<1>9. MappedIn(a, s) \cap (from .. to - 1) = MappedIn(a, s)
  BY <1>2, <1>3 DEF UserPages
<1>. QED
  BY <1>5, <1>8, <1>9

\* What was seen matters at directories only.
LEMMA SeesSame ==
    ASSUME NEW m, NEW sees, Sound(m, sees), NEW sees2, \A e \in Dirs : sees2[e] = sees[e]
    PROVE  Sound(m, sees2)
<1>1. \A d \in Dirs : \A v \in MappedIn(m, d) : PageSound(m, sees2, d, v)
  BY DEF Sound, PageSound
<1>. QED
  BY <1>1 DEF Sound

LEMMA CloneSound ==
    ASSUME NEW m, NEW sees, Sound(m, sees), NEW d \in Dirs, ~m.dirs[d].live,
           NEW s \in Dirs, m.dirs[s].live,
           NEW sees2, \A e \in Dirs \ {d} : sees2[e] = sees[e],
           CloneSpace(m, s, d).ok => sees2[d] = sees[s]
    PROVE  LET n == CloneSpace(m, s, d) IN
           /\ Sound(n, sees2)
           /\ n.ok => n.dirs[d].live /\ MappedIn(m, s) \subseteq MappedIn(n, d)
           /\ ~n.ok => n.dirs[d] = NoDir
           /\ \A e \in Dirs \ {d} : n.dirs[e] = m.dirs[e]
<1>1. PICK a, n, sees1 : /\ a = CreateSpace(m, d) /\ n = Copied(a, s, d)
                         /\ sees1 = [e \in Dirs |-> IF e = d THEN sees[s] ELSE sees[e]]
  OBVIOUS
<1>2. s # d /\ sees1[d] = sees1[s] /\ \A e \in Dirs \ {d} : sees1[e] = sees[e]
  BY <1>1
<1>3. /\ Sound(a, sees1) /\ a.dirs[d].live /\ MappedIn(a, d) = {}
      /\ \A e \in Dirs \ {d} : a.dirs[e] = m.dirs[e]
  BY <1>1, <1>2, CreateSound
<1>4. /\ Sound(n, sees1) /\ OnlyDir(a, n, d)
      /\ n.ok => MappedIn(a, s) \subseteq MappedIn(n, d)
  BY <1>1, <1>2, <1>3, CopiedSound
<1>5. /\ n.dirs[d].live /\ \A e \in Dirs \ {d} : n.dirs[e] = m.dirs[e]
      /\ MappedIn(a, s) = MappedIn(m, s)
  BY <1>2, <1>3, <1>4 DEF OnlyDir, MappedIn
<1>6. CloneSpace(m, s, d) = IF n.ok THEN n ELSE Destroy(n, d)
  BY <1>1 DEF CloneSpace, Copied
<1>7. CASE n.ok
  <2>1. CloneSpace(m, s, d) = n
    BY <1>6, <1>7
  <2>2. \A e \in Dirs : sees2[e] = sees1[e]
    BY <1>1, <1>2, <1>7, <2>1
  <2>3. Sound(n, sees2)
    BY <1>4, <2>2, SeesSame
  <2>. QED
    BY <1>4, <1>5, <1>7, <2>1, <2>3
<1>8. CASE ~n.ok
  <2>1. PICK o : o = Destroy(n, d)
    OBVIOUS
  <2>2. \A e \in Dirs \ {d} : sees2[e] = sees1[e]
    BY <1>2
  <2>3. /\ Sound(o, sees2) /\ o.ok = n.ok /\ o.dirs[d] = NoDir
        /\ \A e \in Dirs \ {d} : o.dirs[e] = n.dirs[e]
    BY <1>4, <2>1, <2>2, DestroySound
  <2>4. CloneSpace(m, s, d) = o
    BY <1>6, <1>8, <2>1
  <2>. QED
    BY <1>5, <1>8, <2>3, <2>4
<1>. QED
  BY <1>7, <1>8

-----------------------------------------------------------------------------
(* Tasks and their layouts.                                                *)

\* Every program finds its places apart, and what brk and mmap may map lies
\* apart too.
PlacesApart ==
    /\ \A image \in Images : image.segments \o image.interp # <<>>
    /\ \A image \in Images, n \in 0 .. MaxStacks - 1 : ImageApart(image, StackBase(n))
    /\ 0 .. PageUp(MaxBrk) - 1 \subseteq UserPages /\ PageUp(MaxBrk) <= MMAP_BASE
    /\ MMAP_BASE .. MMAP_BASE + MaxMmap - 1 \subseteq UserPages

StackBases == {StackBase(n) : n \in Nat}
LayoutType == [dir : Dirs \cup {0}, base : Nat, brk : Nat, mmap : Nat, stack : {0} \cup StackBases]

\* A live task's directory exists and holds all pages below its break; where
\* its break, its mappings and its stack may go is as they were laid out.
TaskSound(m, l) ==
    /\ l.dir \in Dirs /\ m.dirs[l.dir].live
    /\ StackApart(l.stack) /\ l.mmap >= MMAP_BASE
    /\ l.base <= l.brk /\ (l.brk = l.base \/ l.brk <= MaxBrk)
    /\ PageUp(l.base) .. PageUp(l.brk) - 1 \subseteq MappedIn(m, l.dir)

MemoryGood(m, ts, n, sees) ==
    /\ Sound(m, sees)
    /\ ts \in [Tasks -> LayoutType] /\ n \in Nat /\ sees \in [Dirs -> SUBSET Tasks]
    /\ \A t \in Tasks : ts[t].dir # 0 => TaskSound(m, ts[t])

MemInv == MemoryGood(mem, tasks, stacks, seen)

LEMMA MemoryStarts == MemoryInit => MemInv
<1>. SUFFICES ASSUME MemoryInit PROVE MemInv
  OBVIOUS
<1>1. TrampolineFrame \in Frames
  BY FirstFrame
<1>2. /\ mem.ok = TRUE /\ mem.used = {TrampolineFrame} /\ mem.data = [f \in Frames |-> Zero]
      /\ mem.dirs = [d \in Dirs |-> NoDir]
  BY DEF MemoryInit
<1>3. mem \in Memory
  BY <1>1, EmptySpace DEF MemoryInit, Memory, Writers
<1>4. \A d \in Dirs : mem.dirs[d] = NoDir /\ MappedIn(mem, d) = {}
  BY <1>2, EmptySpace DEF MappedIn
<1>5. Sound(mem, seen)
  BY <1>2, <1>3, <1>4 DEF Sound
<1>6. Nobody \in LayoutType /\ Nobody.dir = 0
  BY DEF Nobody, LayoutType
<1>7. /\ tasks \in [Tasks -> LayoutType] /\ \A t \in Tasks : tasks[t].dir = 0
      /\ stacks \in Nat /\ seen \in [Dirs -> SUBSET Tasks]
  BY <1>6 DEF MemoryInit
<1>. QED
  BY <1>5, <1>7 DEF MemInv, MemoryGood

LEMMA TaskSame ==
    ASSUME NEW m, NEW n, NEW l, TaskSound(m, l), n.dirs[l.dir] = m.dirs[l.dir]
    PROVE  TaskSound(n, l)
BY DEF TaskSound, MappedIn

\* No page below a break may be chosen for mmap.
LEMMA BreakApart ==
    ASSUME PlacesApart, NEW m, NEW l \in LayoutType, TaskSound(m, l)
    PROVE  PageUp(l.base) .. PageUp(l.brk) - 1 \cap Mappable = {}
<1>1. l.base \in Nat /\ l.brk \in Nat /\ MaxBrk \in Nat /\ MMAP_BASE \in Nat /\ MaxMmap \in Nat
  BY MemoryAssumption DEF LayoutType
<1>2. l.brk = l.base \/ PageUp(l.brk) <= PageUp(MaxBrk)
  BY <1>1 DEF TaskSound, PageUp
<1>3. PageUp(MaxBrk) <= MMAP_BASE
  BY DEF PlacesApart
<1>4. PageUp(l.base) \in Int /\ PageUp(l.brk) \in Int /\ PageUp(MaxBrk) \in Int
  BY <1>1 DEF PageUp
<1>5. ASSUME NEW v \in PageUp(l.base) .. PageUp(l.brk) - 1 PROVE v \notin Mappable
  <2>1. l.brk # l.base
    BY <1>4
  <2>2. v < MMAP_BASE
    BY <1>1, <1>2, <1>3, <1>4, <2>1
  <2>. QED
    BY <1>1, <1>4, <2>2 DEF Mappable
<1>. QED
  BY <1>5

\* A step that changes one task's directory, and its layout.
LEMMA TaskChanges ==
    ASSUME PlacesApart, MemInv, NEW t \in Tasks, Alive(t), NEW m, NEW layout \in LayoutType,
           Sound(m, seen), OnlyDir(mem, m, tasks[t].dir), layout.dir = tasks[t].dir,
           MappedIn(mem, tasks[t].dir) \ Mappable \subseteq MappedIn(m, tasks[t].dir),
           TaskSound(m, layout), TaskBecomes(t, m, layout)
    PROVE  MemInv'
<1>1. /\ tasks \in [Tasks -> LayoutType] /\ stacks \in Nat /\ seen \in [Dirs -> SUBSET Tasks]
      /\ \A u \in Tasks : tasks[u].dir # 0 => TaskSound(mem, tasks[u])
  BY DEF MemInv, MemoryGood
<1>2. /\ mem' = m /\ tasks' = [tasks EXCEPT ![t] = layout] /\ stacks' = stacks /\ seen' = seen
  BY DEF TaskBecomes
<1>3. tasks' \in [Tasks -> LayoutType] /\ tasks'[t] = layout
      /\ \A u \in Tasks \ {t} : tasks'[u] = tasks[u]
  BY <1>1, <1>2
<1>4. ASSUME NEW u \in Tasks, u # t, tasks[u].dir # 0 PROVE TaskSound(m, tasks[u])
  <2>1. TaskSound(mem, tasks[u]) /\ tasks[u] \in LayoutType
    BY <1>1, <1>4
  <2>2. tasks[u].dir \in Dirs
    BY <2>1 DEF TaskSound
  <2>3. CASE tasks[u].dir # tasks[t].dir
    <3>1. m.dirs[tasks[u].dir] = mem.dirs[tasks[u].dir]
      BY <2>2, <2>3 DEF OnlyDir
    <3>. QED
      BY <2>1, <3>1, TaskSame
  <2>4. CASE tasks[u].dir = tasks[t].dir
    <3>1. m.dirs[tasks[u].dir].live = mem.dirs[tasks[u].dir].live
      BY <2>4 DEF OnlyDir
    <3>2. PageUp(tasks[u].base) .. PageUp(tasks[u].brk) - 1 \cap Mappable = {}
      BY <2>1, BreakApart
    <3>3. PageUp(tasks[u].base) .. PageUp(tasks[u].brk) - 1 \subseteq MappedIn(mem, tasks[u].dir)
      BY <2>1 DEF TaskSound
    <3>4. PageUp(tasks[u].base) .. PageUp(tasks[u].brk) - 1 \subseteq MappedIn(m, tasks[u].dir)
      BY <2>4, <3>2, <3>3
    <3>. QED
      BY <2>1, <3>1, <3>4 DEF TaskSound
  <2>. QED
    BY <2>3, <2>4
<1>5. \A u \in Tasks : tasks'[u].dir # 0 => TaskSound(m, tasks'[u])
  BY <1>3, <1>4
<1>. QED
  BY <1>1, <1>2, <1>3, <1>5 DEF MemInv, MemoryGood

-----------------------------------------------------------------------------
(* One lemma for each action.                                              *)

\* What the actions on one task start from.
LEMMA TaskFacts ==
    ASSUME MemInv, NEW t \in Tasks, Alive(t), NEW m, m = Fresh(mem)
    PROVE  /\ Sound(m, seen) /\ m.dirs = mem.dirs /\ m.ok = TRUE /\ m.used = mem.used
           /\ m.data = mem.data /\ tasks[t] \in LayoutType /\ TaskSound(mem, tasks[t])
           /\ m.dirs[tasks[t].dir].live /\ tasks[t].dir \in Dirs
<1>1. Sound(mem, seen) /\ tasks[t] \in LayoutType /\ TaskSound(mem, tasks[t])
  BY DEF MemInv, MemoryGood, Alive
<1>2. Sound(m, seen) /\ m.dirs = mem.dirs /\ m.ok = TRUE /\ m.used = mem.used /\ m.data = mem.data
  BY <1>1, OkSound DEF Fresh
<1>. QED
  BY <1>1, <1>2 DEF TaskSound

LEMMA BrkKeeps ==
    ASSUME PlacesApart, MemInv, NEW t \in Tasks, NEW half \in 0 .. MaxBrk, Brk(t, half)
    PROVE  MemInv'
<1>1. PICK m, l, d, from, to, n :
        /\ m = Fresh(mem) /\ l = tasks[t] /\ d = l.dir /\ from = PageUp(l.brk) /\ to = PageUp(half)
        /\ n = MapUserPages(m, d, from, to, TRUE)
  OBVIOUS
<1>2. Alive(t) /\ half >= l.base
      /\ TaskBecomes(t, n, [l EXCEPT !.brk = IF n.ok THEN half ELSE l.brk])
  BY <1>1 DEF Brk
<1>3. /\ Sound(m, seen) /\ m.dirs = mem.dirs /\ l \in LayoutType /\ TaskSound(mem, l)
      /\ m.dirs[d].live /\ d \in Dirs
  BY <1>1, <1>2, TaskFacts
<1>4. /\ l.base \in Nat /\ l.brk \in Nat /\ MaxBrk \in Nat /\ half \in Nat /\ half <= MaxBrk
      /\ from \in Int /\ to \in Int /\ PageUp(l.base) \in Int /\ from >= 0 /\ to <= PageUp(MaxBrk)
  <2>1. l.base \in Nat /\ l.brk \in Nat /\ MaxBrk \in Nat /\ half \in Nat /\ half <= MaxBrk
    BY <1>3, MemoryAssumption DEF LayoutType
  <2>. QED
    BY <1>1, <2>1 DEF PageUp
<1>5. from .. to - 1 \subseteq UserPages
  <2>1. PageUp(MaxBrk) \in Int
    BY <1>4 DEF PageUp
  <2>2. from .. to - 1 \subseteq 0 .. PageUp(MaxBrk) - 1
    BY <1>4, <2>1
  <2>. QED
    BY <2>2 DEF PlacesApart
<1>6. /\ Sound(n, seen) /\ OnlyDir(m, n, d) /\ MappedIn(m, d) \subseteq MappedIn(n, d)
      /\ n.ok => from .. to - 1 \subseteq MappedIn(n, d)
  BY <1>1, <1>3, <1>4, <1>5, MapUserPagesSound
<1>7. OnlyDir(mem, n, d) /\ MappedIn(mem, d) \subseteq MappedIn(n, d)
  BY <1>3, <1>6 DEF OnlyDir, MappedIn
<1>8. PICK brk, layout : /\ brk = (IF n.ok THEN half ELSE l.brk)
                         /\ layout = [l EXCEPT !.brk = brk]
  OBVIOUS
<1>9. layout \in LayoutType /\ layout.dir = d /\ layout.base = l.base /\ layout.brk = brk
      /\ layout.mmap = l.mmap /\ layout.stack = l.stack
  BY <1>1, <1>3, <1>4, <1>8 DEF LayoutType
<1>10. n.dirs[d].live
  BY <1>3, <1>6 DEF OnlyDir
<1>11. TaskSound(n, layout)
  <2>1. CASE ~n.ok
    <3>1. brk = l.brk
      BY <1>8, <2>1
    <3>. QED
      BY <1>1, <1>3, <1>7, <1>9, <1>10, <3>1 DEF TaskSound
  <2>2. CASE n.ok
    <3>1. brk = half /\ to = PageUp(brk)
      BY <1>1, <1>8, <2>2
    <3>2. PageUp(l.base) .. to - 1 \subseteq (PageUp(l.base) .. from - 1) \cup (from .. to - 1)
      BY <1>4
    <3>3. PageUp(l.base) .. from - 1 \subseteq MappedIn(mem, d)
      BY <1>1, <1>3 DEF TaskSound
    <3>4. PageUp(l.base) .. PageUp(brk) - 1 \subseteq MappedIn(n, d)
      BY <1>6, <1>7, <2>2, <3>1, <3>2, <3>3
    <3>. QED
      BY <1>2, <1>3, <1>4, <1>9, <1>10, <3>1, <3>4 DEF TaskSound
  <2>. QED
    BY <2>1, <2>2
<1>12. TaskBecomes(t, n, layout)
  BY <1>2, <1>8
<1>. QED
  BY <1>1, <1>2, <1>6, <1>7, <1>9, <1>11, <1>12, TaskChanges

LEMMA MmapKeeps ==
    ASSUME PlacesApart, MemInv, NEW t \in Tasks, NEW len \in 1 .. MaxMmap, NEW w \in BOOLEAN,
           Mmap(t, len, w)
    PROVE  MemInv'
<1>1. PICK m, l, d, from, to, n :
        /\ m = Fresh(mem) /\ l = tasks[t] /\ d = l.dir /\ from = l.mmap /\ to = from + len
        /\ n = MapUserPages(m, d, from, to, w)
  OBVIOUS
<1>2. Alive(t) /\ to <= MMAP_BASE + MaxMmap /\ TaskBecomes(t, n, [l EXCEPT !.mmap = to + 1])
  BY <1>1 DEF Mmap
<1>3. /\ Sound(m, seen) /\ m.dirs = mem.dirs /\ l \in LayoutType /\ TaskSound(mem, l)
      /\ m.dirs[d].live /\ d \in Dirs
  BY <1>1, <1>2, TaskFacts
<1>4. /\ from \in Nat /\ MMAP_BASE \in Nat /\ MaxMmap \in Nat /\ to \in Nat
      /\ from >= MMAP_BASE /\ to > from
  <2>1. from \in Nat /\ MMAP_BASE \in Nat /\ MaxMmap \in Nat /\ from >= MMAP_BASE
    BY <1>1, <1>3, MemoryAssumption DEF LayoutType, TaskSound
  <2>. QED
    BY <1>1, <2>1
<1>5. from .. to - 1 \subseteq UserPages
  <2>1. from .. to - 1 \subseteq MMAP_BASE .. MMAP_BASE + MaxMmap - 1
    BY <1>2, <1>4
  <2>. QED
    BY <2>1 DEF PlacesApart
<1>6. Sound(n, seen) /\ OnlyDir(m, n, d) /\ MappedIn(m, d) \subseteq MappedIn(n, d)
  <2>1. n = MapUserPages(m, d, from, to, w) /\ from \in Int /\ to \in Int
    BY <1>1, <1>4
  <2>. QED
    BY <1>3, <1>5, <2>1, MapUserPagesSound
<1>7. OnlyDir(mem, n, d) /\ MappedIn(mem, d) \subseteq MappedIn(n, d) /\ n.dirs[d].live
  BY <1>3, <1>6 DEF OnlyDir, MappedIn
<1>8. PICK layout : layout = [l EXCEPT !.mmap = to + 1]
  OBVIOUS
<1>9. layout \in LayoutType /\ layout.dir = d /\ layout.base = l.base /\ layout.brk = l.brk
      /\ layout.mmap = to + 1 /\ layout.stack = l.stack
  BY <1>1, <1>3, <1>4, <1>8 DEF LayoutType
<1>10. TaskSound(n, layout)
  BY <1>1, <1>3, <1>4, <1>7, <1>9 DEF TaskSound
<1>. QED
  BY <1>1, <1>2, <1>6, <1>7, <1>8, <1>9, <1>10, TaskChanges

\* The task's layout stays, and so do its pages below the break.
LEMMA SameLayout ==
    ASSUME PlacesApart, MemInv, NEW t \in Tasks, Alive(t), NEW n, Sound(n, seen),
           OnlyDir(mem, n, tasks[t].dir),
           MappedIn(mem, tasks[t].dir) \ Mappable \subseteq MappedIn(n, tasks[t].dir),
           TaskBecomes(t, n, tasks[t])
    PROVE  MemInv'
<1>1. PICK l : l = tasks[t]
  OBVIOUS
<1>2. l \in LayoutType /\ TaskSound(mem, l) /\ Sound(mem, seen)
  BY <1>1 DEF MemInv, MemoryGood, Alive
<1>3. PageUp(l.base) .. PageUp(l.brk) - 1 \subseteq MappedIn(n, l.dir)
  <2>1. PageUp(l.base) .. PageUp(l.brk) - 1 \cap Mappable = {}
    BY <1>2, BreakApart
  <2>. QED
    BY <1>1, <1>2, <2>1 DEF TaskSound
<1>4. TaskSound(n, l)
  BY <1>1, <1>2, <1>3 DEF TaskSound, OnlyDir
<1>. QED
  BY <1>1, <1>2, <1>4, TaskChanges

LEMMA MappableUser ==
    ASSUME PlacesApart, NEW v \in Mappable
    PROVE  v \in UserPages /\ v \in Int
BY MemoryAssumption DEF PlacesApart, Mappable, Pages

LEMMA MmapFixedKeeps ==
    ASSUME PlacesApart, MemInv, NEW t \in Tasks, NEW v \in Mappable, NEW w \in BOOLEAN,
           NEW valid \in BOOLEAN, MmapFixed(t, v, w, valid)
    PROVE  MemInv'
<1>1. PICK m, d, a, n :
        /\ m = Fresh(mem) /\ d = tasks[t].dir /\ a = UnmapPages(m, d, v, v + 1)
        /\ n = IF valid THEN MapUserPages(a, d, v, v + 1, w) ELSE a
  OBVIOUS
<1>2. Alive(t) /\ TaskBecomes(t, n, tasks[t])
  BY <1>1 DEF MmapFixed
<1>3. Sound(m, seen) /\ m.dirs = mem.dirs /\ m.dirs[d].live /\ d \in Dirs
  BY <1>1, <1>2, TaskFacts
<1>4. v \in UserPages /\ v \in Int /\ v + 1 \in Int /\ v .. (v + 1) - 1 = {v}
  BY MappableUser
<1>5. a = UnmapPage(m, d, v)
  BY <1>1, <1>4, UnmapOne
<1>6. Sound(a, seen) /\ OnlyDir(m, a, d) /\ MappedIn(a, d) = MappedIn(m, d) \ {v}
  BY <1>3, <1>5, UnmapSound
<1>7. a.dirs[d].live
  BY <1>3, <1>6 DEF OnlyDir
<1>8. Sound(n, seen) /\ OnlyDir(a, n, d) /\ MappedIn(a, d) \subseteq MappedIn(n, d)
  <2>1. CASE valid
    <3>1. n = MapUserPages(a, d, v, v + 1, w)
      BY <1>1, <2>1
    <3>2. v .. (v + 1) - 1 \subseteq UserPages
      BY <1>4
    <3>. QED
      BY <1>3, <1>4, <1>6, <1>7, <3>1, <3>2, MapUserPagesSound
  <2>2. CASE ~valid
    BY <1>1, <1>6, <2>2 DEF OnlyDir
  <2>. QED
    BY <2>1, <2>2
<1>9. OnlyDir(mem, n, d)
  BY <1>3, <1>6, <1>8 DEF OnlyDir
<1>10. MappedIn(mem, d) \ Mappable \subseteq MappedIn(n, d)
  <2>1. MappedIn(m, d) = MappedIn(mem, d)
    BY <1>3 DEF MappedIn
  <2>. QED
    BY <1>6, <1>8, <2>1
<1>. QED
  BY <1>1, <1>2, <1>8, <1>9, <1>10, SameLayout

LEMMA MunmapKeeps ==
    ASSUME PlacesApart, MemInv, NEW t \in Tasks, NEW v \in Mappable, Munmap(t, v)
    PROVE  MemInv'
<1>1. PICK m, d, n : m = Fresh(mem) /\ d = tasks[t].dir /\ n = UnmapPage(m, d, v)
  OBVIOUS
<1>2. Alive(t) /\ TaskBecomes(t, n, tasks[t])
  BY <1>1 DEF Munmap
<1>3. Sound(m, seen) /\ m.dirs = mem.dirs /\ d \in Dirs
  BY <1>1, <1>2, TaskFacts
<1>4. Sound(n, seen) /\ OnlyDir(m, n, d) /\ MappedIn(n, d) = MappedIn(m, d) \ {v}
  BY <1>1, <1>3, UnmapSound
<1>5. OnlyDir(mem, n, d)
  BY <1>3, <1>4 DEF OnlyDir
<1>6. MappedIn(mem, d) \ Mappable \subseteq MappedIn(n, d)
  <2>1. MappedIn(m, d) = MappedIn(mem, d)
    BY <1>3 DEF MappedIn
  <2>. QED
    BY <1>4, <2>1
<1>. QED
  BY <1>1, <1>2, <1>4, <1>5, <1>6, SameLayout

\* Another right to write to a page.
LEMMA ProtectSound ==
    ASSUME NEW m, NEW sees, Sound(m, sees), NEW d \in Dirs, NEW v \in MappedIn(m, d),
           NEW w \in BOOLEAN, NEW n, n = [m EXCEPT !.dirs[d].map[v].w = w]
    PROVE  Sound(n, sees) /\ OnlyDir(m, n, d) /\ MappedIn(n, d) = MappedIn(m, d)
<1>1. m \in Memory
  BY DEF Sound
<1>2. /\ m.data \in [Frames -> Writers] /\ m.dirs \in [Dirs -> Space]
      /\ m.used \in SUBSET Frames /\ m.ok \in BOOLEAN
  BY <1>1 DEF Memory
<1>3. PICK l, t, map, ok, used, dat, dirs, f, x :
        /\ l = m.dirs[d].live /\ t = m.dirs[d].tables /\ map = m.dirs[d].map
        /\ ok = m.ok /\ used = m.used /\ dat = m.data /\ dirs = m.dirs
        /\ f = m.dirs[d].map[v].frame /\ x = m.dirs[d].map[v].w
  OBVIOUS
<1>4. PICK S \in SUBSET Int : map \in [S -> Entry]
  <2>1. m.dirs[d] \in Space
    BY <1>2
  <2>2. map \in Maps
    BY <1>3, <2>1 DEF Space
  <2>. QED
    BY <2>2 DEF Maps
<1>5. v \in S /\ map[v] \in Entry /\ map[v] = [frame |-> f, w |-> x]
  BY <1>3, <1>4 DEF MappedIn, Entry
<1>6. PICK e, new, dir, dirs2 :
        /\ e = [frame |-> f, w |-> w] /\ new = [map EXCEPT ![v] = e]
        /\ dir = [live |-> l, tables |-> t, map |-> new] /\ dirs2 = [dirs EXCEPT ![d] = dir]
  OBVIOUS
<1>7. n = [ok |-> ok, used |-> used, data |-> dat, dirs |-> dirs2]
  <2>1. [map[v] EXCEPT !.w = w] = e
    BY ONLY <1>5, <1>6
  <2>2. m.dirs[d] = [live |-> l, tables |-> t, map |-> map]
    BY <1>2, <1>3 DEF Space
  <2>3. [m.dirs[d] EXCEPT !.map = new] = dir
    BY ONLY <1>6, <2>2
  <2>4. m = [ok |-> ok, used |-> used, data |-> dat, dirs |-> dirs]
    BY <1>1, <1>3 DEF Memory
  <2>5. n = [m EXCEPT !.dirs = [m.dirs EXCEPT ![d] =
                [m.dirs[d] EXCEPT !.map = [m.dirs[d].map EXCEPT ![v] =
                   [m.dirs[d].map[v] EXCEPT !.w = w]]]]]
    BY <1>2, <1>3, <1>5
  <2>6. n = [m EXCEPT !.dirs = dirs2]
    BY <1>3, <1>6, <2>1, <2>3, <2>5
  <2>. QED
    BY ONLY <2>4, <2>6
<1>8. new \in Maps
  <2>1. e \in Entry
    BY <1>5, <1>6 DEF Entry
  <2>2. new \in [S -> Entry]
    BY <1>4, <1>6, <2>1
  <2>. QED
    BY <2>2 DEF Maps
<1>9. dir \in Space
  BY <1>2, <1>3, <1>6, <1>8 DEF Space
<1>10. n \in Memory
  <2>1. dirs2 \in [Dirs -> Space]
    BY <1>2, <1>3, <1>6, <1>9
  <2>2. ok \in BOOLEAN /\ used \in SUBSET Frames /\ dat \in [Frames -> Writers]
    BY <1>2, <1>3
  <2>. QED
    BY ONLY <1>7, <2>1, <2>2 DEF Memory
<1>11. /\ n.used = m.used /\ n.data = m.data /\ n.dirs[d] = dir
       /\ \A g \in Dirs \ {d} : n.dirs[g] = m.dirs[g]
  BY <1>2, <1>3, <1>6, <1>7
<1>12. dir.live = m.dirs[d].live /\ dir.tables = m.dirs[d].tables /\ dir.map = new
  BY <1>3, <1>6
<1>13. /\ MappedIn(n, d) = MappedIn(m, d)
       /\ \A u \in MappedIn(m, d) : FrameIn(n, d, u) = FrameIn(m, d, u)
  <2>1. DOMAIN new = DOMAIN map /\ \A u \in DOMAIN map : new[u] = IF u = v THEN e ELSE map[u]
    BY <1>4, <1>5, <1>6
  <2>2. e.frame = f
    BY <1>6
  <2>. QED
    BY <1>3, <1>11, <1>12, <2>1, <2>2 DEF MappedIn, FrameIn
<1>14. \A g \in Dirs : /\ n.dirs[g].live = m.dirs[g].live /\ n.dirs[g].tables = m.dirs[g].tables
                       /\ MappedIn(n, g) = MappedIn(m, g)
                       /\ \A u \in MappedIn(m, g) : FrameIn(n, g, u) = FrameIn(m, g, u)
  BY <1>11, <1>12, <1>13 DEF MappedIn, FrameIn
<1>15. Sound(n, sees)
  <2>1. \A g \in Dirs : ~n.dirs[g].live => MappedIn(n, g) = {}
    BY <1>14 DEF Sound
  <2>2. ASSUME NEW g \in Dirs, NEW u \in MappedIn(n, g) PROVE PageSound(n, sees, g, u)
    <3>1. /\ u \in MappedIn(m, g) /\ FrameIn(n, g, u) = FrameIn(m, g, u)
          /\ n.dirs[g].tables = m.dirs[g].tables
      BY <1>14
    <3>2. PageSound(m, sees, g, u)
      BY <3>1 DEF Sound
    <3>. QED
      BY <1>11, <3>1, <3>2 DEF PageSound
  <2>3. \A g, h \in Dirs : \A u \in MappedIn(n, g), y \in MappedIn(n, h) : PagesApart(n, g, u, h, y)
    BY <1>14 DEF Sound, PagesApart
  <2>4. \A z \in n.used \ {TrampolineFrame} : FrameMapped(n, z)
    BY <1>11, <1>14 DEF Sound, FrameMapped
  <2>5. TrampolineFrame \in n.used
    BY <1>11 DEF Sound
  <2>. QED
    BY <1>10, <2>1, <2>2, <2>3, <2>4, <2>5 DEF Sound
<1>. QED
  BY <1>11, <1>13, <1>14, <1>15 DEF OnlyDir

LEMMA MprotectKeeps ==
    ASSUME PlacesApart, MemInv, NEW t \in Tasks, NEW v, NEW w \in BOOLEAN, Mprotect(t, v, w)
    PROVE  MemInv'
<1>1. PICK m, d, n : m = Fresh(mem) /\ d = tasks[t].dir /\ n = [m EXCEPT !.dirs[d].map[v].w = w]
  OBVIOUS
<1>2. Alive(t) /\ v \in MappedIn(mem, d) /\ TaskBecomes(t, n, tasks[t])
  BY <1>1 DEF Mprotect, MappedIn
<1>3. Sound(m, seen) /\ m.dirs = mem.dirs /\ d \in Dirs
  BY <1>1, <1>2, TaskFacts
<1>4. MappedIn(m, d) = MappedIn(mem, d)
  BY <1>3 DEF MappedIn
<1>5. Sound(n, seen) /\ OnlyDir(m, n, d) /\ MappedIn(n, d) = MappedIn(m, d)
  <2>1. d \in Dirs /\ v \in MappedIn(m, d) /\ n = [m EXCEPT !.dirs[d].map[v].w = w]
    BY <1>1, <1>2, <1>3, <1>4
  <2>. QED
    BY ONLY <1>3, <2>1, w \in BOOLEAN, ProtectSound
<1>6. OnlyDir(mem, n, d)
  BY <1>3, <1>5 DEF OnlyDir
<1>. QED
  BY <1>1, <1>2, <1>4, <1>5, <1>6, SameLayout

\* One task changes and the directories of the others do not.
LEMMA OneTask ==
    ASSUME MemInv, NEW t \in Tasks, NEW n, NEW layout \in LayoutType, NEW k \in Nat,
           NEW sees \in [Dirs -> SUBSET Tasks], Sound(n, sees),
           layout.dir # 0 => TaskSound(n, layout),
           \A u \in Tasks \ {t} : tasks[u].dir # 0 => n.dirs[tasks[u].dir] = mem.dirs[tasks[u].dir]
    PROVE  MemoryGood(n, [tasks EXCEPT ![t] = layout], k, sees)
<1>1. PICK ts : ts = [tasks EXCEPT ![t] = layout]
  OBVIOUS
<1>2. /\ tasks \in [Tasks -> LayoutType]
      /\ \A u \in Tasks : tasks[u].dir # 0 => TaskSound(mem, tasks[u])
  BY DEF MemInv, MemoryGood
<1>3. ts \in [Tasks -> LayoutType] /\ ts[t] = layout /\ \A u \in Tasks \ {t} : ts[u] = tasks[u]
  BY <1>1, <1>2
<1>4. ASSUME NEW u \in Tasks, ts[u].dir # 0 PROVE TaskSound(n, ts[u])
  <2>1. CASE u = t
    BY <1>3, <1>4, <2>1
  <2>2. CASE u # t
    BY <1>2, <1>3, <1>4, <2>2, TaskSame
  <2>. QED
    BY <2>1, <2>2
<1>. QED
  BY <1>1, <1>3, <1>4 DEF MemoryGood

\* Only the memory changes, in directories of no task.
LEMMA NoTask ==
    ASSUME MemInv, NEW n, NEW k \in Nat, NEW sees \in [Dirs -> SUBSET Tasks], Sound(n, sees),
           \A u \in Tasks : tasks[u].dir # 0 => n.dirs[tasks[u].dir] = mem.dirs[tasks[u].dir]
    PROVE  MemoryGood(n, tasks, k, sees)
<1>1. /\ tasks \in [Tasks -> LayoutType]
      /\ \A u \in Tasks : tasks[u].dir # 0 => TaskSound(mem, tasks[u])
  BY DEF MemInv, MemoryGood
<1>2. ASSUME NEW u \in Tasks, tasks[u].dir # 0 PROVE TaskSound(n, tasks[u])
  BY <1>1, <1>2, TaskSame
<1>. QED
  BY <1>1, <1>2 DEF MemoryGood

LEMMA ExitKeeps ==
    ASSUME MemInv, NEW t \in Tasks, Exit(t)
    PROVE  MemInv'
<1>1. PICK m, d, n : /\ m = Fresh(mem) /\ d = tasks[t].dir
                     /\ n = IF Sharing(t) = {} THEN Destroy(m, d) ELSE m
  OBVIOUS
<1>2. /\ Alive(t) /\ tasks' = [tasks EXCEPT ![t] = Nobody] /\ mem' = n
      /\ stacks' = stacks /\ seen' = seen
  BY <1>1 DEF Exit
<1>3. Sound(m, seen) /\ m.dirs = mem.dirs /\ d \in Dirs
  BY <1>1, <1>2, TaskFacts
<1>4. stacks \in Nat /\ seen \in [Dirs -> SUBSET Tasks]
      /\ \A u \in Tasks : tasks[u].dir # 0 => tasks[u].dir \in Dirs
  BY DEF MemInv, MemoryGood, TaskSound
<1>5. Nobody \in LayoutType /\ Nobody.dir = 0
  BY DEF Nobody, LayoutType
<1>6. /\ Sound(n, seen)
      /\ \A u \in Tasks \ {t} : tasks[u].dir # 0 => n.dirs[tasks[u].dir] = mem.dirs[tasks[u].dir]
  <2>1. CASE Sharing(t) # {}
    BY <1>1, <1>3, <2>1
  <2>2. CASE Sharing(t) = {}
    <3>1. n = Destroy(m, d)
      BY <1>1, <2>2
    <3>2. Sound(n, seen) /\ \A e \in Dirs \ {d} : n.dirs[e] = m.dirs[e]
      BY <1>3, <3>1, DestroySound
    <3>3. \A u \in Tasks \ {t} : tasks[u].dir # d
      BY <1>1, <2>2 DEF Sharing
    <3>. QED
      BY <1>3, <1>4, <3>2, <3>3
  <2>. QED
    BY <2>1, <2>2
<1>7. MemoryGood(n, [tasks EXCEPT ![t] = Nobody], stacks, seen)
  BY <1>4, <1>5, <1>6, OneTask
<1>. QED
  BY <1>2, <1>7 DEF MemInv

LEMMA StackGrowsKeeps ==
    ASSUME PlacesApart, MemInv, NEW t \in Tasks, NEW i \in Offsets, StackGrows(t, i)
    PROVE  MemInv'
<1>1. PICK m, d, v, n : /\ m = Fresh(mem) /\ d = tasks[t].dir /\ v = StackPage(tasks[t].stack, i)
                        /\ n = MapPage(m, d, v, TRUE, Zero)
  OBVIOUS
<1>2. Alive(t) /\ EntryOf(mem, d, v) = {} /\ IF n.ok THEN TaskBecomes(t, n, tasks[t]) ELSE Exit(t)
  BY <1>1 DEF StackGrows
<1>3. CASE ~n.ok
  BY <1>2, <1>3, ExitKeeps
<1>4. CASE n.ok
  <2>1. /\ Sound(m, seen) /\ m.dirs = mem.dirs /\ d \in Dirs /\ m.dirs[d].live
        /\ TaskSound(mem, tasks[t])
    BY <1>1, <1>2, TaskFacts
  <2>2. v \in UserPages
    BY <1>1, <2>1 DEF TaskSound, StackApart, StackPages
  <2>3. v \notin MappedIn(mem, d)
    <3>1. Sound(mem, seen)
      BY DEF MemInv, MemoryGood
    <3>. QED
      BY <1>2, <2>1, <2>2, <3>1, EntryMapped
  <2>4. MappedIn(m, d) = MappedIn(mem, d) /\ Zero \in Writers /\ Zero \in {Zero} \cup seen[d]
    BY <2>1 DEF MappedIn, Writers
  <2>5. Sound(n, seen) /\ OnlyDir(m, n, d) /\ MappedIn(m, d) \subseteq MappedIn(n, d)
    BY <1>1, <2>1, <2>2, <2>3, <2>4, MapSound
  <2>6. OnlyDir(mem, n, d)
    BY <2>1, <2>5 DEF OnlyDir
  <2>. QED
    BY <1>1, <1>2, <1>4, <2>4, <2>5, <2>6, SameLayout
<1>. QED
  BY <1>3, <1>4

LEMMA CloneKeeps ==
    ASSUME MemInv, NEW t \in Tasks, NEW u \in Tasks, Clone(t, u)
    PROVE  MemInv'
<1>1. /\ tasks[t].dir # 0 /\ tasks' = [tasks EXCEPT ![u] = tasks[t]]
      /\ mem' = mem /\ stacks' = stacks /\ seen' = seen
  BY DEF Clone, Alive
<1>2. /\ Sound(mem, seen) /\ stacks \in Nat /\ seen \in [Dirs -> SUBSET Tasks]
      /\ tasks[t] \in LayoutType /\ TaskSound(mem, tasks[t])
  BY <1>1 DEF MemInv, MemoryGood
<1>3. MemoryGood(mem, [tasks EXCEPT ![u] = tasks[t]], stacks, seen)
  BY <1>2, OneTask
<1>. QED
  BY <1>1, <1>3 DEF MemInv

\* Task t writes to a page of directory d.
LEMMA WriteSound ==
    ASSUME NEW m, NEW sees \in [Dirs -> SUBSET Tasks], Sound(m, sees), NEW d \in Dirs,
           NEW v \in MappedIn(m, d), NEW t \in Tasks, NEW f, f = FrameIn(m, d, v),
           NEW n, n = [m EXCEPT !.data[f] = t],
           NEW sees2, sees2[d] = sees[d] \cup {t}, \A e \in Dirs \ {d} : sees2[e] = sees[e]
    PROVE  Sound(n, sees2) /\ n.dirs = m.dirs
<1>1. /\ m.data \in [Frames -> Writers] /\ m.dirs \in [Dirs -> Space]
      /\ m.used \in SUBSET Frames /\ m.ok \in BOOLEAN /\ m \in Memory
  BY DEF Sound, Memory
<1>2. f \in Frames
  BY <1>1 DEF Sound, PageSound
<1>3. PICK ok, used, dat, dirs, dat2 :
        /\ ok = m.ok /\ used = m.used /\ dat = m.data /\ dirs = m.dirs
        /\ dat2 = [dat EXCEPT ![f] = t]
  OBVIOUS
<1>4. n = [ok |-> ok, used |-> used, data |-> dat2, dirs |-> dirs]
  <2>1. m = [ok |-> ok, used |-> used, data |-> dat, dirs |-> dirs]
    BY <1>1, <1>3 DEF Memory
  <2>2. n = [m EXCEPT !.data = dat2]
    BY <1>3
  <2>. QED
    BY ONLY <2>1, <2>2
<1>5. dat2 \in [Frames -> Writers]
  BY <1>1, <1>3 DEF Writers
<1>6. n \in Memory
  <2>1. ok \in BOOLEAN /\ used \in SUBSET Frames /\ dirs \in [Dirs -> Space]
    BY <1>1, <1>3
  <2>. QED
    BY ONLY <1>4, <1>5, <2>1 DEF Memory
<1>7. n.dirs = m.dirs /\ n.used = m.used /\ n.data = dat2
  BY <1>3, <1>4
<1>8. \A g \in Dirs : MappedIn(n, g) = MappedIn(m, g)
                       /\ \A u \in MappedIn(m, g) : FrameIn(n, g, u) = FrameIn(m, g, u)
  BY <1>7 DEF MappedIn, FrameIn
<1>9. ASSUME NEW g \in Dirs, NEW u \in MappedIn(n, g) PROVE PageSound(n, sees2, g, u)
  <2>1. PICK h : h = FrameIn(m, g, u)
    OBVIOUS
  <2>2. PageSound(m, sees, g, u) /\ u \in MappedIn(m, g) /\ FrameIn(n, g, u) = h
    BY <1>8, <2>1 DEF Sound
  <2>3. h \in Frames /\ sees[g] \subseteq sees2[g] /\ t \in sees2[d]
    BY <1>1, <2>1, <2>2 DEF PageSound
  <2>4. dat2[h] \in {Zero} \cup sees2[g]
    <3>1. CASE h = f
      <4>1. PagesApart(m, g, u, d, v)
        BY <2>2 DEF Sound
      <4>2. g = d
        BY <2>1, <3>1, <4>1 DEF PagesApart
      <4>. QED
        BY <1>1, <1>2, <1>3, <2>3, <3>1, <4>2
    <3>2. CASE h # f
      <4>1. dat2[h] = m.data[h]
        BY <1>1, <1>3, <2>3, <3>2
      <4>2. m.data[h] \in {Zero} \cup sees[g]
        BY <2>1, <2>2 DEF PageSound
      <4>. QED
        BY <2>3, <4>1, <4>2
    <3>. QED
      BY <3>1, <3>2
  <2>. QED
    BY <1>7, <2>1, <2>2, <2>4 DEF PageSound
<1>10. /\ \A g \in Dirs : ~n.dirs[g].live => MappedIn(n, g) = {}
       /\ TrampolineFrame \in n.used
  BY <1>7, <1>8 DEF Sound
<1>11. \A g, h \in Dirs : \A u \in MappedIn(n, g), y \in MappedIn(n, h) : PagesApart(n, g, u, h, y)
  BY <1>8 DEF Sound, PagesApart
<1>12. \A z \in n.used \ {TrampolineFrame} : FrameMapped(n, z)
  BY <1>7, <1>8 DEF Sound, FrameMapped
<1>. QED
  BY <1>6, <1>7, <1>9, <1>10, <1>11, <1>12 DEF Sound

LEMMA WriteKeeps ==
    ASSUME MemInv, NEW t \in Tasks, NEW v, Write(t, v)
    PROVE  MemInv'
<1>1. PICK m, d, f, n : /\ m = Fresh(mem) /\ d = tasks[t].dir /\ f = FrameIn(mem, d, v)
                        /\ n = [m EXCEPT !.data[f] = t]
  OBVIOUS
<1>2. /\ Alive(t) /\ v \in MappedIn(mem, d) /\ mem' = n
      /\ seen' = [seen EXCEPT ![d] = @ \cup {t}] /\ tasks' = tasks /\ stacks' = stacks
  BY <1>1 DEF Write, MappedIn, FrameIn
<1>3. Sound(m, seen) /\ m.dirs = mem.dirs /\ d \in Dirs
  BY <1>1, <1>2, TaskFacts
<1>4. stacks \in Nat /\ seen \in [Dirs -> SUBSET Tasks]
  BY DEF MemInv, MemoryGood
<1>5. v \in MappedIn(m, d) /\ f = FrameIn(m, d, v)
  BY <1>1, <1>2, <1>3 DEF MappedIn, FrameIn
<1>6. PICK sees2 : sees2 = [seen EXCEPT ![d] = @ \cup {t}]
  OBVIOUS
<1>7. Sound(n, sees2) /\ n.dirs = m.dirs
  <2>1. n = [m EXCEPT !.data[f] = t]
    BY <1>1
  <2>2. seen \in [Dirs -> SUBSET Tasks] /\ Sound(m, seen) /\ d \in Dirs
    BY <1>3, <1>4
  <2>3. sees2[d] = seen[d] \cup {t} /\ \A e \in Dirs \ {d} : sees2[e] = seen[e]
    BY <1>4, <1>6, <2>2
  <2>. QED
    BY <1>5, <2>1, <2>2, <2>3, WriteSound
<1>8. sees2 \in [Dirs -> SUBSET Tasks]
  BY <1>4, <1>6
<1>9. MemoryGood(n, tasks, stacks, sees2)
  BY <1>3, <1>4, <1>7, <1>8, NoTask
<1>. QED
  BY <1>2, <1>6, <1>9 DEF MemInv

\* The page after the last segment is one.
LEMMA EndOfImage ==
    ASSUME NEW image, image.segments \in Seq(Pages \X Pages), image.interp \in Seq(Pages \X Pages),
           image.segments \o image.interp # <<>>
    PROVE  ImageEnd(image) \in Nat
<1>1. PICK all, S : all = image.segments \o image.interp /\ S = {all[i][2] + 1 : i \in DOMAIN all}
  OBVIOUS
<1>2. all \in Seq(Pages \X Pages) /\ all # <<>>
  BY <1>1
<1>3. \A i \in DOMAIN all : all[i][2] \in Nat /\ all[i][2] <= LAST
  <2>1. \A i \in DOMAIN all : all[i] \in Pages \X Pages
    BY <1>2
  <2>. QED
    BY <2>1, MemoryAssumption DEF Pages
<1>4. PICK T : T = {LAST + 1 - x : x \in S}
  OBVIOUS
<1>5. S # {} /\ S \subseteq Nat /\ \A x \in S : x <= LAST + 1
  <2>1. 1 \in DOMAIN all
    BY <1>2
  <2>2. LAST \in Nat
    BY MemoryAssumption
  <2>3. all[1][2] + 1 \in S
    BY <1>1, <2>1
  <2>4. ASSUME NEW x \in S PROVE x \in Nat /\ x <= LAST + 1
    <3>1. PICK i \in DOMAIN all : x = all[i][2] + 1
      BY <1>1
    <3>2. PICK last : last = all[i][2]
      OBVIOUS
    <3>. QED
      BY <1>3, <2>2, <3>1, <3>2
  <2>. QED
    BY <2>3, <2>4
<1>6. T # {} /\ T \in SUBSET Nat
  <2>1. LAST \in Nat
    BY MemoryAssumption
  <2>2. \A x \in S : LAST + 1 - x \in Nat
    BY <1>5, <2>1
  <2>. QED
    BY <1>4, <1>5, <2>2
<1>7. PICK k \in T : \A y \in T : k <= y
  BY <1>6, LeastNumber
<1>8. PICK end \in S : k = LAST + 1 - end
  BY <1>4, <1>7
<1>9. \A x \in S : x <= end
  <2>1. LAST \in Nat
    BY MemoryAssumption
  <2>2. \A x \in S : LAST + 1 - end <= LAST + 1 - x
    BY <1>4, <1>7, <1>8
  <2>. QED
    BY <1>5, <2>1, <2>2
<1>10. \A i \in DOMAIN all : all[i][2] < end
  <2>1. \A i \in DOMAIN all : all[i][2] + 1 <= end
    BY <1>1, <1>9
  <2>. QED
    BY <1>3, <1>5, <2>1
<1>11. ImageEnd(image) = CHOOSE x \in S : \A i \in DOMAIN all : all[i][2] < x
  BY <1>1 DEF ImageEnd
<1>12. ImageEnd(image) \in S
  BY <1>10, <1>11
<1>. QED
  BY <1>5, <1>12

LEMMA LayoutSound ==
    ASSUME PlacesApart, NEW image \in Images, NEW k \in Nat, k < MaxStacks, NEW m,
           NEW d \in Dirs, m.dirs[d].live, NEW l, l = Layout(d, image, StackBase(k))
    PROVE  l \in LayoutType /\ TaskSound(m, l) /\ l.dir = d
<1>1. k \in 0 .. MaxStacks - 1
  BY MemoryAssumption
<1>2. ImageApart(image, StackBase(k)) /\ image.segments \o image.interp # <<>>
  BY <1>1 DEF PlacesApart
<1>3. PICK end : end = ImageEnd(image) /\ end \in Nat
  BY <1>2, EndOfImage DEF ImageApart
<1>4. l = [dir |-> d, base |-> 2 * end, brk |-> 2 * end, mmap |-> MMAP_BASE, stack |-> StackBase(k)]
  BY <1>3 DEF Layout
<1>5. MMAP_BASE \in Nat /\ 2 * end \in Nat /\ StackBase(k) \in StackBases
  BY <1>3, MemoryAssumption DEF StackBases
<1>6. l \in LayoutType
  BY <1>4, <1>5 DEF LayoutType
<1>7. PageUp(l.base) .. PageUp(l.brk) - 1 = {}
  <2>1. PageUp(2 * end) \in Int
    BY <1>3 DEF PageUp
  <2>. QED
    BY <1>4, <2>1
<1>8. TaskSound(m, l)
  BY <1>2, <1>4, <1>5, <1>7 DEF TaskSound, ImageApart
<1>. QED
  BY <1>4, <1>6, <1>8

\* What the actions on a new directory start from.
LEMMA NewDirFacts ==
    ASSUME MemInv, NEW d \in NewDir, NEW m, m = Fresh(mem)
    PROVE  /\ Sound(m, seen) /\ m.dirs = mem.dirs /\ d \in Dirs /\ ~m.dirs[d].live
           /\ \A u \in Tasks : tasks[u].dir # 0 => tasks[u].dir \in Dirs \ {d}
<1>1. Sound(m, seen) /\ m.dirs = mem.dirs
  BY OkSound DEF MemInv, MemoryGood, Fresh
<1>2. d \in Dirs /\ ~mem.dirs[d].live
  BY DEF NewDir, FreeDirs
<1>3. \A u \in Tasks : tasks[u].dir # 0 => tasks[u].dir \in Dirs /\ mem.dirs[tasks[u].dir].live
  BY DEF MemInv, MemoryGood, TaskSound
<1>. QED
  BY <1>1, <1>2, <1>3

\* The directory's users so far are forgotten, or become those of another.
LEMMA SeenAnew ==
    ASSUME NEW sees \in [Dirs -> SUBSET Tasks], NEW d \in Dirs, NEW us \in SUBSET Tasks,
           NEW sees2, sees2 = [sees EXCEPT ![d] = us]
    PROVE  /\ sees2 \in [Dirs -> SUBSET Tasks] /\ sees2[d] = us
           /\ \A e \in Dirs \ {d} : sees2[e] = sees[e]
OBVIOUS

\* The load that Start, Exec and ExecNoHeap begin with.
LEMMA LoadFacts ==
    ASSUME PlacesApart, MemInv, stacks < MaxStacks, NEW image \in Images, NEW d \in NewDir,
           NEW sees, \A e \in Dirs \ {d} : sees[e] = seen[e],
           NEW n, n = Load(Fresh(mem), d, image, StackBase(stacks))
    PROVE  /\ Sound(n, sees) /\ (n.ok => n.dirs[d].live)
           /\ \A e \in Dirs \ {d} : n.dirs[e] = mem.dirs[e]
<1>1. PICK m : m = Fresh(mem)
  OBVIOUS
<1>2. Sound(m, seen) /\ m.dirs = mem.dirs /\ d \in Dirs /\ ~m.dirs[d].live
  BY <1>1, NewDirFacts
<1>3. stacks \in 0 .. MaxStacks - 1
  <2>1. stacks \in Nat /\ MaxStacks \in Nat
    BY MemoryAssumption DEF MemInv, MemoryGood
  <2>. QED
    BY <2>1
<1>4. PICK base : base = StackBase(stacks)
  OBVIOUS
<1>5. ImageApart(image, base)
  BY <1>3, <1>4 DEF PlacesApart
<1>6. n = Load(m, d, image, base)
  BY <1>1, <1>4
<1>. QED
  BY <1>2, <1>5, <1>6, LoadSound

LEMMA StartKeeps ==
    ASSUME PlacesApart, MemInv, NEW t \in Tasks, NEW image \in Images, Start(t, image)
    PROVE  MemInv'
<1>1. t \in NewTask /\ stacks < MaxStacks
  BY DEF Start
<1>2. PICK d, n, k, ts, sees :
        /\ d \in NewDir
        /\ n = Load(Fresh(mem), d, image, StackBase(stacks))
        /\ k = stacks + (IF LaysOutStack(Fresh(mem), d, image) THEN 1 ELSE 0)
        /\ ts = IF n.ok THEN [tasks EXCEPT ![t] = Layout(d, image, StackBase(stacks))] ELSE tasks
        /\ sees = [seen EXCEPT ![d] = {}]
        /\ mem' = n /\ stacks' = k /\ tasks' = ts /\ seen' = sees
  BY DEF Start
<1>3. stacks \in Nat /\ seen \in [Dirs -> SUBSET Tasks] /\ d \in NewDir /\ d \in Dirs
  BY <1>2 DEF MemInv, MemoryGood, NewDir, FreeDirs
<1>4. k \in Nat
  BY <1>2, <1>3
<1>5. sees \in [Dirs -> SUBSET Tasks] /\ \A e \in Dirs \ {d} : sees[e] = seen[e]
  BY <1>2, <1>3, SeenAnew
<1>6. /\ Sound(n, sees) /\ (n.ok => n.dirs[d].live)
      /\ \A e \in Dirs \ {d} : n.dirs[e] = mem.dirs[e]
  <2>1. n = Load(Fresh(mem), d, image, StackBase(stacks))
    BY <1>2
  <2>. QED
    BY <1>1, <1>3, <1>5, <2>1, LoadFacts
<1>7. \A u \in Tasks : tasks[u].dir # 0 => n.dirs[tasks[u].dir] = mem.dirs[tasks[u].dir]
  BY <1>3, <1>6, NewDirFacts
<1>8. MemoryGood(n, ts, k, sees)
  <2>1. CASE ~n.ok
    <3>1. ts = tasks
      BY <1>2, <2>1
    <3>. QED
      BY <1>4, <1>5, <1>6, <1>7, <3>1, NoTask
  <2>2. CASE n.ok
    <3>1. PICK l : l = Layout(d, image, StackBase(stacks))
      OBVIOUS
    <3>2. l \in LayoutType /\ TaskSound(n, l)
      BY <1>1, <1>3, <1>6, <2>2, <3>1, LayoutSound
    <3>3. ts = [tasks EXCEPT ![t] = l]
      BY <1>2, <2>2, <3>1
    <3>. QED
      BY <1>4, <1>5, <1>6, <1>7, <3>2, <3>3, OneTask
  <2>. QED
    BY <2>1, <2>2
<1>. QED
  BY <1>2, <1>8 DEF MemInv

LEMMA ExecKeeps ==
    ASSUME PlacesApart, MemInv, NEW t \in Tasks, NEW image \in Images, Exec(t, image)
    PROVE  MemInv'
<1>1. Alive(t) /\ Sharing(t) = {} /\ stacks < MaxStacks
  BY DEF Exec
<1>2. PICK d, n, k, ts, sees, o, old :
        /\ d \in NewDir
        /\ n = Load(Fresh(mem), d, image, StackBase(stacks))
        /\ k = stacks + (IF LaysOutStack(Fresh(mem), d, image) THEN 1 ELSE 0)
        /\ ts = IF n.ok THEN [tasks EXCEPT ![t] = Layout(d, image, StackBase(stacks))] ELSE tasks
        /\ sees = [seen EXCEPT ![d] = {}] /\ old = tasks[t].dir
        /\ o = IF n.ok THEN Destroy(n, old) ELSE n
        /\ mem' = o /\ stacks' = k /\ tasks' = ts /\ seen' = sees
  BY DEF Exec
<1>3. stacks \in Nat /\ seen \in [Dirs -> SUBSET Tasks] /\ d \in NewDir /\ d \in Dirs
  BY <1>2 DEF MemInv, MemoryGood, NewDir, FreeDirs
<1>4. k \in Nat
  BY <1>2, <1>3
<1>5. sees \in [Dirs -> SUBSET Tasks] /\ \A e \in Dirs \ {d} : sees[e] = seen[e]
  BY <1>2, <1>3, SeenAnew
<1>6. /\ Sound(n, sees) /\ (n.ok => n.dirs[d].live)
      /\ \A e \in Dirs \ {d} : n.dirs[e] = mem.dirs[e]
  <2>1. n = Load(Fresh(mem), d, image, StackBase(stacks))
    BY <1>2
  <2>. QED
    BY <1>1, <1>3, <1>5, <2>1, LoadFacts
<1>7. \A u \in Tasks : tasks[u].dir # 0 => tasks[u].dir \in Dirs \ {d}
  BY <1>3, NewDirFacts
<1>8. MemoryGood(o, ts, k, sees)
  <2>1. CASE ~n.ok
    <3>1. ts = tasks /\ o = n
      BY <1>2, <2>1
    <3>. QED
      BY <1>4, <1>5, <1>6, <1>7, <3>1, NoTask
  <2>2. CASE n.ok
    <3>1. o = Destroy(n, old) /\ old \in Dirs \ {d}
      BY <1>1, <1>2, <1>7, <2>2 DEF Alive
    <3>2. Sound(o, sees) /\ \A e \in Dirs \ {old} : o.dirs[e] = n.dirs[e]
      BY <1>6, <3>1, DestroySound
    <3>3. \A u \in Tasks \ {t} : tasks[u].dir # old
      BY <1>1, <1>2 DEF Sharing
    <3>4. \A u \in Tasks \ {t} : tasks[u].dir # 0 => o.dirs[tasks[u].dir] = mem.dirs[tasks[u].dir]
      BY <1>6, <1>7, <3>2, <3>3
    <3>5. o.dirs[d].live
      BY <1>3, <1>6, <2>2, <3>1, <3>2
    <3>6. PICK l : l = Layout(d, image, StackBase(stacks))
      OBVIOUS
    <3>7. l \in LayoutType /\ TaskSound(o, l)
      BY <1>1, <1>3, <3>5, <3>6, LayoutSound
    <3>8. ts = [tasks EXCEPT ![t] = l]
      BY <1>2, <2>2, <3>6
    <3>. QED
      BY <1>4, <1>5, <3>2, <3>4, <3>7, <3>8, OneTask
  <2>. QED
    BY <2>1, <2>2
<1>. QED
  BY <1>2, <1>8 DEF MemInv

LEMMA ExecNoHeapKeeps ==
    ASSUME PlacesApart, MemInv, NEW t \in Tasks, NEW image \in Images, ExecNoHeap(t, image)
    PROVE  MemInv'
<1>1. stacks < MaxStacks /\ stacks' = stacks + 1 /\ tasks' = tasks /\ seen' = seen
  BY DEF ExecNoHeap
<1>2. PICK d, n, o :
        /\ d \in NewDir
        /\ n = Load(Fresh(mem), d, image, StackBase(stacks))
                                /\ o = Destroy(n, d) /\ mem' = o
  BY DEF ExecNoHeap
<1>3. stacks \in Nat /\ seen \in [Dirs -> SUBSET Tasks] /\ d \in NewDir /\ d \in Dirs
  BY <1>2 DEF MemInv, MemoryGood, NewDir, FreeDirs
<1>4. Sound(n, seen) /\ \A e \in Dirs \ {d} : n.dirs[e] = mem.dirs[e]
  BY <1>1, <1>2, LoadFacts
<1>5. Sound(o, seen) /\ \A e \in Dirs \ {d} : o.dirs[e] = n.dirs[e]
  BY <1>2, <1>3, <1>4, DestroySound
<1>6. \A u \in Tasks : tasks[u].dir # 0 => o.dirs[tasks[u].dir] = mem.dirs[tasks[u].dir]
  BY <1>3, <1>4, <1>5, NewDirFacts
<1>7. MemoryGood(o, tasks, stacks + 1, seen)
  <2>1. PICK k : k = stacks + 1
    OBVIOUS
  <2>2. k \in Nat
    BY <1>3, <2>1
  <2>. QED
    BY <1>3, <1>5, <1>6, <2>1, <2>2, NoTask
<1>. QED
  BY <1>1, <1>2, <1>7 DEF MemInv

LEMMA ForkKeeps ==
    ASSUME PlacesApart, MemInv, NEW t \in Tasks, NEW u \in Tasks, Fork(t, u)
    PROVE  MemInv'
<1>1. Alive(t) /\ stacks' = stacks
  BY DEF Fork
<1>2. PICK d, n, ts, sees, s, us :
        /\ d \in NewDir
        /\ s = tasks[t].dir /\ n = CloneSpace(Fresh(mem), s, d)
        /\ ts = (IF n.ok THEN [tasks EXCEPT ![u] = [tasks[t] EXCEPT !.dir = d]] ELSE tasks)
        /\ us = (IF n.ok THEN seen[s] ELSE {}) /\ sees = [seen EXCEPT ![d] = us]
        /\ mem' = n /\ tasks' = ts /\ seen' = sees
  <2>1. PICK d \in NewDir :
          LET n == CloneSpace(Fresh(mem), tasks[t].dir, d) IN
          /\ mem' = n
          /\ tasks' = IF n.ok THEN [tasks EXCEPT ![u] = [tasks[t] EXCEPT !.dir = d]] ELSE tasks
          /\ seen' = [seen EXCEPT ![d] = IF n.ok THEN seen[tasks[t].dir] ELSE {}]
    BY DEF Fork
  <2>2. PICK n, s, us : /\ n = CloneSpace(Fresh(mem), tasks[t].dir, d) /\ s = tasks[t].dir
                        /\ us = (IF n.ok THEN seen[s] ELSE {})
    OBVIOUS
  <2>3. seen' = [seen EXCEPT ![d] = us]
    BY <2>1, <2>2
  <2>. QED
    BY <2>1, <2>2, <2>3
<1>3. /\ stacks \in Nat /\ seen \in [Dirs -> SUBSET Tasks]
      /\ d \in NewDir /\ d \in Dirs /\ s \in Dirs
  BY <1>1, <1>2 DEF MemInv, MemoryGood, NewDir, FreeDirs, Alive, TaskSound
<1>4. us \in SUBSET Tasks
  BY <1>2, <1>3
<1>5. /\ sees \in [Dirs -> SUBSET Tasks] /\ sees[d] = us
      /\ \A e \in Dirs \ {d} : sees[e] = seen[e]
  BY <1>2, <1>3, <1>4, SeenAnew
<1>6. PICK m : m = Fresh(mem)
  OBVIOUS
<1>7. /\ Sound(m, seen) /\ m.dirs = mem.dirs /\ ~m.dirs[d].live
      /\ \A x \in Tasks : tasks[x].dir # 0 => tasks[x].dir \in Dirs \ {d}
  BY <1>3, <1>6, NewDirFacts
<1>8. m.dirs[s].live /\ tasks[t] \in LayoutType /\ TaskSound(mem, tasks[t])
  BY <1>1, <1>2, <1>6, TaskFacts
<1>9. n = CloneSpace(m, s, d) /\ (n.ok => sees[d] = seen[s])
  BY <1>2, <1>5, <1>6
<1>10. /\ Sound(n, sees)
       /\ n.ok => n.dirs[d].live /\ MappedIn(m, s) \subseteq MappedIn(n, d)
       /\ \A e \in Dirs \ {d} : n.dirs[e] = m.dirs[e]
  BY <1>3, <1>5, <1>7, <1>8, <1>9, CloneSound
<1>11. \A x \in Tasks : tasks[x].dir # 0 => n.dirs[tasks[x].dir] = mem.dirs[tasks[x].dir]
  BY <1>7, <1>10
<1>12. MemoryGood(n, ts, stacks, sees)
  <2>1. CASE ~n.ok
    <3>1. ts = tasks
      BY <1>2, <2>1
    <3>. QED
      BY <1>3, <1>5, <1>10, <1>11, <3>1, NoTask
  <2>2. CASE n.ok
    <3>1. PICK l, new : l = tasks[t] /\ new = [l EXCEPT !.dir = d]
      OBVIOUS
    <3>2. /\ new \in LayoutType /\ new.dir = d /\ new.base = l.base /\ new.brk = l.brk
          /\ new.mmap = l.mmap /\ new.stack = l.stack
      BY <1>3, <1>8, <3>1 DEF LayoutType
    <3>3. PageUp(l.base) .. PageUp(l.brk) - 1 \subseteq MappedIn(n, d)
      <4>1. MappedIn(m, s) = MappedIn(mem, s)
        BY <1>7 DEF MappedIn
      <4>. QED
        BY <1>2, <1>8, <1>10, <2>2, <3>1, <4>1 DEF TaskSound
    <3>4. TaskSound(n, new)
      BY <1>3, <1>8, <1>10, <2>2, <3>1, <3>2, <3>3 DEF TaskSound
    <3>5. ts = [tasks EXCEPT ![u] = new]
      BY <1>2, <2>2, <3>1
    <3>. QED
      BY <1>3, <1>5, <1>10, <1>11, <3>2, <3>4, <3>5, OneTask
  <2>. QED
    BY <2>1, <2>2
<1>. QED
  BY <1>1, <1>2, <1>12 DEF MemInv

LEMMA MemoryStep ==
    ASSUME PlacesApart, MemInv, MemoryNext
    PROVE  MemInv'
BY StartKeeps, ExecKeeps, ExecNoHeapKeeps, ForkKeeps, CloneKeeps, ExitKeeps, BrkKeeps, MmapKeeps,
   MmapFixedKeeps, MunmapKeeps, MprotectKeeps, StackGrowsKeeps, WriteKeeps DEF MemoryNext

-----------------------------------------------------------------------------
LEMMA MemoryHolds == MemInv => MemorySound
<1>. SUFFICES ASSUME MemInv PROVE MemorySound
  OBVIOUS
<1>1. Sound(mem, seen) /\ mem \in Memory
  BY DEF MemInv, MemoryGood, Sound
<1>2. ASSUME NEW p \in Mapped
      PROVE  p[1] \in Dirs /\ p[2] \in MappedIn(mem, p[1]) /\ FrameAt(p) = FrameIn(mem, p[1], p[2])
  BY DEF Mapped, MappedIn, FrameAt, FrameIn
<1>3. ASSUME NEW d \in Dirs, NEW v \in MappedIn(mem, d)
      PROVE  <<d, v>> \in Mapped /\ FrameAt(<<d, v>>) = FrameIn(mem, d, v)
  <2>1. v \in Pages
    BY <1>1 DEF Sound, PageSound, UserPages
  <2>. QED
    BY <2>1 DEF Mapped, MappedIn, FrameAt, FrameIn
<1>4. ASSUME NEW p \in Mapped, NEW q \in Mapped, FrameAt(p) = FrameAt(q) PROVE p = q
  <2>1. PagesApart(mem, p[1], p[2], q[1], q[2])
    BY <1>1, <1>2 DEF Sound
  <2>2. p[1] = q[1] /\ p[2] = q[2]
    BY <1>2, <1>4, <2>1 DEF PagesApart
  <2>3. p = <<p[1], p[2]>> /\ q = <<q[1], q[2]>>
    BY DEF Mapped
  <2>. QED
    BY <2>2, <2>3
<1>5. mem.used = {FrameAt(p) : p \in Mapped} \cup {TrampolineFrame}
  <2>1. ASSUME NEW p \in Mapped PROVE FrameAt(p) \in mem.used
    BY <1>1, <1>2 DEF Sound, PageSound
  <2>2. ASSUME NEW f \in mem.used \ {TrampolineFrame} PROVE f \in {FrameAt(p) : p \in Mapped}
    <3>1. PICK d, v : d \in Dirs /\ v \in MappedIn(mem, d) /\ FrameIn(mem, d, v) = f
      BY <1>1 DEF Sound, FrameMapped
    <3>. QED
      BY <1>3, <3>1
  <2>3. TrampolineFrame \in mem.used
    BY <1>1 DEF Sound
  <2>. QED
    BY <2>1, <2>2, <2>3
<1>6. NoForeignData
  <2>1. ASSUME NEW p \in Mapped PROVE mem.data[FrameAt(p)] \in {Zero} \cup seen[p[1]]
    BY <1>1, <1>2 DEF Sound, PageSound
  <2>. QED
    BY <2>1 DEF NoForeignData
<1>7. BreakMapped
  <2>1. ASSUME NEW t \in Tasks, Alive(t), NEW v \in PageUp(tasks[t].base) .. PageUp(tasks[t].brk) - 1
        PROVE  EntryOf(mem, tasks[t].dir, v) # {}
    <3>1. TaskSound(mem, tasks[t])
      BY <2>1 DEF MemInv, MemoryGood, Alive
    <3>2. tasks[t].dir \in Dirs /\ v \in MappedIn(mem, tasks[t].dir)
      BY <3>1 DEF TaskSound
    <3>3. v \in UserPages
      BY <1>1, <3>2 DEF Sound, PageSound
    <3>. QED
      BY <1>1, <3>2, <3>3, EntryMapped
  <2>. QED
    BY <2>1 DEF BreakMapped
<1>. QED
  BY <1>4, <1>5, <1>6, <1>7 DEF MemorySound, FramesExact

\* Whatever programs start, exec, fork, map, unmap and write, and whichever of
\* these fails for lack of frames: every frame in use is mapped at exactly one
\* place, no program finds another's data in its memory, and the pages below
\* every break are there (kernel/paging.c, kernel/elf.c and the memory calls of
\* kernel/syscall.c), if what the loader places lies apart from each other and
\* from the trampoline.
THEOREM MemoryKept == PlacesApart => (MemorySpec => []MemorySound)
<1>. SUFFICES ASSUME PlacesApart PROVE MemorySpec => []MemorySound
  OBVIOUS
<1>1. MemInv /\ [MemoryNext]_memVars => MemInv'
  <2>. SUFFICES ASSUME MemInv, [MemoryNext]_memVars PROVE MemInv'
    OBVIOUS
  <2>1. CASE MemoryNext
    BY <2>1, MemoryStep
  <2>2. CASE UNCHANGED memVars
    BY <2>2 DEF memVars, MemInv
  <2>. QED
    BY <2>1, <2>2
<1>. QED
  BY MemoryStarts, MemoryHolds, <1>1, PTL DEF MemorySpec
=============================================================================
