-------------------------- MODULE MemoryPool_proofs --------------------------
(***************************************************************************)
(* MemInv and ImplementsPool for every size of the pool and of the table.  *)
(* The argument is about the list as a sequence c of its own:              *)
(* IsList(b, c) determines c, Chain(b) computes it (ChainIs), and a        *)
(* call inserts into it, removes from it, or leaves it and moves or cuts   *)
(* its blocks.  What the library's induction theorems would say of the two *)
(* recursive functions, Chain's and Collected's, is said by SetInduction,  *)
(* about the set of the numbers for which it holds.                        *)
(***************************************************************************)
EXTENDS MemoryPool, SequenceTheorems, FiniteSetTheorems, WellFoundedInduction, TLAPS

\* The indices of the table, POOLSTART among them.
Nodes == Blocks \cup {POOLSTART}

\* A set of numbers has a least element.
LEMMA LeastNatural ==
    ASSUME NEW S \in SUBSET Nat, S # {}
    PROVE  \E x \in S : \A y \in S : x <= y
<1>1. \E x \in S : \A y \in S : ~(<<y, x>> \in OpToRel(<, Nat))
  BY NatLessThanWellFounded, WFMin, Zenon
<1>2. PICK x \in S : \A y \in S : ~(<<y, x>> \in OpToRel(<, Nat))
  BY <1>1
<1>3. \A y \in Nat : y < x => <<y, x>> \in OpToRel(<, Nat)
  BY <1>2 DEF OpToRel
<1>4. \A y \in S : y \in Nat
  OBVIOUS
<1>5. \A y \in S : ~(y < x)
  BY <1>2, <1>3, <1>4, Zenon
<1> QED
  BY <1>4, <1>5

\* What holds of m, and of n + 1 when it holds of n, holds from m on.
LEMMA SetInduction ==
    ASSUME NEW S, NEW m \in Nat, m \in S,
           \A n \in Nat : n >= m /\ n \in S => n + 1 \in S
    PROVE  \A n \in Nat : n >= m => n \in S
<1>1. SUFFICES ASSUME NEW q \in Nat, q >= m, q \notin S
               PROVE  FALSE
  OBVIOUS
<1> DEFINE Bad == {n \in Nat : n >= m /\ n \notin S}
<1>2. PICK x \in Bad : \A y \in Bad : x <= y
  BY <1>1, LeastNatural
<1>3. x - 1 \in Nat /\ x - 1 >= m
  BY <1>2
<1>4. x - 1 \in S
  BY <1>2, <1>3
<1> QED
  BY <1>2, <1>3, <1>4

\* The rows of from.
Row(b, n, below) ==
    [h \in DOMAIN b |->
        IF n = 0 \/ b[h].nextblock = NOBLOCK THEN <<h>>
        ELSE <<h>> \o below[b[h].nextblock]]

\* The function from of Chain exists: f[n] is its row n.
LEMMA ChainDefined ==
    ASSUME NEW b
    PROVE  \E f : /\ Chain(b) = f[MEMPOOL_NUM_MEMBLOCKS][POOLSTART]
                  /\ \A n \in 0..MEMPOOL_NUM_MEMBLOCKS : f[n] = Row(b, n, f[n - 1])
<1> DEFINE N == MEMPOOL_NUM_MEMBLOCKS
           Is(f, n) == f = [i \in 0..n |-> Row(b, i, f[i - 1])]
           S == {n \in Nat : \E f : Is(f, n)}
<1>1. 0 \in S
  <2> DEFINE g == [i \in 0..0 |-> Row(b, i, 0)]
  <2>1. \A v, w : Row(b, 0, v) = Row(b, 0, w)
    BY DEF Row
  <2>2. Is(g, 0)
    BY <2>1
  <2> QED BY <2>2
<1>2. ASSUME NEW n \in Nat, n >= 0 /\ n \in S
      PROVE  n + 1 \in S
  <2>1. PICK f : Is(f, n)
    BY <1>2
  <2> DEFINE g == [i \in 0..(n + 1) |-> Row(b, i, f[i - 1])]
  <2> HIDE DEF Row
  <2>2. \A i \in 0..n : g[i] = f[i]
    BY <2>1
  <2>3. \A v, w : Row(b, 0, v) = Row(b, 0, w)
    BY DEF Row
  <2>4. \A i \in 0..(n + 1) : Row(b, i, f[i - 1]) = Row(b, i, g[i - 1])
    <3> TAKE i \in 0..(n + 1)
    <3>1. CASE i = 0
      BY <3>1, <2>3
    <3>2. CASE i # 0
      <4>1. i - 1 \in 0..n
        BY <3>2
      <4>2. g[i - 1] = f[i - 1]
        BY <4>1, <2>2
      <4> HIDE DEF g
      <4> QED BY <4>2
    <3> QED BY <3>1, <3>2
  <2>5. Is(g, n + 1)
    BY <2>4
  <2>6. \E x : Is(x, n + 1)
    <3> HIDE DEF g, Is
    <3> QED BY <2>5
  <2>7. n + 1 \in Nat
    OBVIOUS
  <2> QED BY <2>6, <2>7, Zenon
<1>3. \A n \in Nat : n >= 0 => n \in S
  <2> HIDE DEF S
  <2> QED BY <1>1, <1>2, SetInduction
<1>4. N \in Nat
  BY MemoryAssumption
<1>5. \E f : Is(f, N)
  BY <1>3, <1>4
<1> DEFINE F == CHOOSE f : Is(f, N)
<1>6. Is(F, N)
  BY <1>5
<1>7. Chain(b) = F[N][POOLSTART]
  BY DEF Chain, Row
<1>8. \A n \in 0..N : F[n] = Row(b, n, F[n - 1])
  <2> HIDE DEF F
  <2> QED BY <1>6
<1> QED
  BY <1>7, <1>8
-----------------------------------------------------------------------------
(* Lists. *)

\* What the list says of its entries, among it that no entry is in it twice.
LEMMA ListFacts ==
    ASSUME NEW b, NEW c, IsTable(b), IsList(b, c)
    PROVE  /\ DOMAIN b = Nodes
           /\ Len(c) \in Nat /\ Len(c) >= 1 /\ DOMAIN c = 1..Len(c)
           /\ \A j \in 1..Len(c) : c[j] \in Nodes
           /\ \A j \in 2..Len(c) : c[j] \in Blocks /\ b[c[j]].size > 0
           /\ \A h \in Nodes : /\ b[h].begin \in Nat
                               /\ b[h].size \in Nat
                               /\ b[h].nextblock \in Nodes
           /\ \A i, j \in 1..Len(c) : c[i] = c[j] => i = j
<1>1. DOMAIN b = Nodes
  BY DEF IsTable, Nodes
<1>2. Len(c) \in Nat /\ Len(c) >= 1 /\ DOMAIN c = 1..Len(c)
  BY <1>1 DEF IsList
<1>3. \A j \in 1..Len(c) : c[j] \in Nodes
  BY <1>1 DEF IsList
<1>4. \A h \in Nodes : /\ b[h].begin \in Nat
                       /\ b[h].size \in Nat
                       /\ b[h].nextblock \in Nodes
  BY DEF IsTable, Nodes, NOBLOCK, POOLSTART
<1>5. \A j \in 2..Len(c) : c[j] \in Blocks /\ b[c[j]].size > 0
  BY DEF IsList
<1>6. ASSUME NEW i \in 1..Len(c), NEW j \in 1..Len(c), i < j
      PROVE  c[i] # c[j]
  <2>1. EndOf(b, c[i]) <= b[c[j]].begin
    BY <1>2, <1>6 DEF IsList
  <2>2. b[c[j]].size > 0
    BY <1>5, <1>6
  <2> QED BY <2>1, <2>2, <1>3, <1>4 DEF EndOf
<1>7. \A i, j \in 1..Len(c) : c[i] = c[j] => i = j
  BY <1>6, <1>2
<1> QED
  BY <1>1, <1>2, <1>3, <1>4, <1>5, <1>7

\* A list is not longer than the table, which Chain relies on.
LEMMA ListShort ==
    ASSUME NEW b, NEW c, IsTable(b), IsList(b, c)
    PROVE  Len(c) <= MEMPOOL_NUM_MEMBLOCKS + 1
<1>1. MEMPOOL_NUM_MEMBLOCKS \in Nat
  BY MemoryAssumption
<1> DEFINE S == 1..Len(c)
           T == 0..MEMPOOL_NUM_MEMBLOCKS
           f == [j \in S |-> c[j]]
<1>2. Len(c) \in Nat
  BY ListFacts
<1>3. \A j \in S : f[j] \in T
  BY <1>1, ListFacts DEF Nodes, Blocks, POOLSTART
<1>4. f \in Injection(S, T)
  <2>1. f \in [S -> T]
    BY <1>3
  <2>2. \A i, j \in S : f[i] = f[j] => i = j
    BY ListFacts
  <2> HIDE DEF f
  <2> QED BY <2>1, <2>2 DEF Injection, IsInjective
<1>5. IsFiniteSet(T) /\ Cardinality(T) = MEMPOOL_NUM_MEMBLOCKS + 1
  BY <1>1, FS_Interval
<1>6. Cardinality(S) <= Cardinality(T)
  BY <1>4, <1>5, FS_Injection
<1>7. Cardinality(S) = Len(c)
  <2>1. Cardinality(S) = IF 1 > Len(c) THEN 0 ELSE Len(c) - 1 + 1
    BY <1>2, FS_Interval
  <2> QED BY <2>1, <1>2
<1> QED BY <1>5, <1>6, <1>7

\* An entry before what is behind it.
LEMMA ConsTail ==
    ASSUME NEW V, NEW k \in Nat, NEW c, \A i \in 1..k : c[i] \in V,
           NEW j \in 1..k, j < k
    PROVE  <<c[j]>> \o [i \in 1..(k - (j + 1) + 1) |-> c[j + 1 + i - 1]]
               = [i \in 1..(k - j + 1) |-> c[j + i - 1]]
<1> DEFINE s == [i \in 1..(k - (j + 1) + 1) |-> c[j + 1 + i - 1]]
           r == [i \in 1..(k - j + 1) |-> c[j + i - 1]]
           t == <<c[j]>> \o s
<1>1. s = [i \in 1..(k - j) |-> c[j + i]]
  <2>1. k - (j + 1) + 1 = k - j /\ \A i \in 1..(k - j) : j + 1 + i - 1 = j + i
    OBVIOUS
  <2> QED BY <2>1
<1>2. s \in Seq(V) /\ Len(s) = k - j
  <2>1. \A i \in 1..(k - j) : c[j + i] \in V
    OBVIOUS
  <2>2. s \in [1..(k - j) -> V] /\ k - j \in Nat
    BY <1>1, <2>1
  <2> HIDE DEF s
  <2> QED BY <2>2
<1>3. \A i \in 1..(k - j) : s[i] = c[j + i]
  BY <1>1
<1> HIDE DEF s
<1>4. <<c[j]>> \in Seq(V)
  OBVIOUS
<1>5. t \in Seq(V) /\ Len(t) = k - j + 1
  BY <1>2, <1>4
<1>6. \A i \in 1..(k - j + 1) : t[i] = r[i]
  <2> TAKE i \in 1..(k - j + 1)
  <2>1. CASE i = 1
    BY <2>1, <1>2, <1>4
  <2>2. CASE i # 1
    <3>1. i - 1 \in 1..(k - j)
      BY <2>2
    <3>2. t[i] = s[i - 1]
      BY <1>2, <1>4, <3>1
    <3>3. s[i - 1] = c[j + (i - 1)]
      BY <1>3, <3>1
    <3>4. j + (i - 1) = j + i - 1
      OBVIOUS
    <3> QED BY <3>2, <3>3, <3>4
  <2> QED BY <2>1, <2>2
<1>7. t = [i \in 1..(k - j + 1) |-> t[i]]
  <2> HIDE DEF t
  <2> QED BY <1>5
<1> HIDE DEF t
<1>8. t = [i \in 1..(k - j + 1) |-> r[i]]
  BY <1>6, <1>7
<1> QED
  BY <1>8 DEF t, s

\* A table has one list, and Chain() walks it.
LEMMA ChainIs ==
    ASSUME NEW b, NEW c, IsTable(b), IsList(b, c)
    PROVE  Chain(b) = c
<1> DEFINE N == MEMPOOL_NUM_MEMBLOCKS
           k == Len(c)
<1>1. N \in Nat
  BY MemoryAssumption
<1>2. k \in Nat /\ k >= 1 /\ k <= N + 1
  BY ListFacts, ListShort
<1>3. PICK f : /\ Chain(b) = f[N][POOLSTART]
               /\ \A n \in 0..N : f[n] = Row(b, n, f[n - 1])
  BY ChainDefined
<1> DEFINE Tail_(j) == [i \in 1..(k - j + 1) |-> c[j + i - 1]]
           S == {d \in Nat : d < k => \A n \in 0..N :
                     n >= d => f[n][c[k - d]] = Tail_(k - d)}
<1>4. 0 \in S
  <2> SUFFICES ASSUME NEW n \in 0..N
               PROVE  f[n][c[k]] = Tail_(k)
    BY <1>2
  <2>1. c[k] \in DOMAIN b /\ b[c[k]].nextblock = NOBLOCK
    BY <1>2, ListFacts DEF IsList
  <2>2. f[n][c[k]] = <<c[k]>>
    BY <1>3, <2>1 DEF Row
  <2>3. Tail_(k) = <<c[k]>>
    BY <1>2
  <2> QED BY <2>2, <2>3
<1>5. ASSUME NEW d \in Nat, d >= 0 /\ d \in S
      PROVE  d + 1 \in S
  <2> SUFFICES ASSUME d + 1 < k, NEW n \in 0..N, n >= d + 1
               PROVE  f[n][c[k - (d + 1)]] = Tail_(k - (d + 1))
    OBVIOUS
  <2>1. PICK j \in 1..k : j = k - (d + 1)
    <3>1. k - (d + 1) \in 1..k
      BY <1>2
    <3> HIDE DEF k
    <3> QED BY <3>1
  <2>2. j < k /\ j + 1 = k - d /\ j + 1 \in 1..k
    BY <1>2, <2>1
  <2>3. n - 1 \in 0..N /\ n - 1 >= d /\ n # 0
    BY <1>1
  <2>4. f[n - 1][c[j + 1]] = Tail_(j + 1)
    <3>1. d < k
      BY <1>2
    <3>2. \A m \in 0..N : m >= d => f[m][c[k - d]] = Tail_(k - d)
      <4> HIDE DEF k, N, Tail_
      <4> QED BY <1>5, <3>1
    <3> HIDE DEF Tail_, k
    <3> QED BY <3>2, <2>2, <2>3
  <2>5. c[j] \in DOMAIN b /\ b[c[j]].nextblock = c[j + 1] /\ c[j + 1] # NOBLOCK
    <3>1. c[j + 1] \in Blocks
      BY <2>2, <1>2, ListFacts
    <3>2. c[j] \in DOMAIN b /\ j \in DOMAIN c
      BY <1>2, ListFacts
    <3>3. b[c[j]].nextblock = IF j = Len(c) THEN NOBLOCK ELSE c[j + 1]
      BY <3>2 DEF IsList
    <3> QED BY <3>1, <3>2, <3>3, <2>2 DEF Blocks, NOBLOCK
  <2>6. f[n][c[j]] = <<c[j]>> \o f[n - 1][c[j + 1]]
    <3>1. f[n] = Row(b, n, f[n - 1])
      BY <1>3
    <3>2. Row(b, n, f[n - 1])[c[j]] = <<c[j]>> \o f[n - 1][b[c[j]].nextblock]
      BY <2>3, <2>5 DEF Row
    <3> QED BY <3>1, <3>2, <2>5
  <2>7. <<c[j]>> \o Tail_(j + 1) = Tail_(j)
    <3>1. \A i \in 1..k : c[i] \in Nodes
      BY ListFacts
    <3> QED BY <3>1, <1>2, <2>2, ConsTail
  <2>8. f[n][c[j]] = Tail_(j)
    <3> HIDE DEF Tail_
    <3> QED BY <2>4, <2>6, <2>7
  <2> QED BY <2>8, <2>1
<1>6. \A n \in Nat : n >= 0 => n \in S
  <2> HIDE DEF S
  <2> QED BY <1>4, <1>5, SetInduction
<1>7. k - 1 \in S /\ k - 1 \in Nat /\ k - 1 <= N
  BY <1>6, <1>2, <1>1
<1>8. f[N][c[1]] = Tail_(1)
  <2>1. k - (k - 1) = 1 /\ k - 1 < k /\ N \in 0..N /\ N >= k - 1
    BY <1>2, <1>1
  <2> QED BY <1>7, <2>1
<1>9. Tail_(1) = c
  <2>1. c = [i \in 1..k |-> c[i]]
    BY ListFacts DEF IsList
  <2>2. Tail_(1) = [i \in 1..k |-> c[i]]
    BY <1>2
  <2> QED BY <2>1, <2>2
<1> QED
  BY <1>3, <1>8, <1>9 DEF IsList
-----------------------------------------------------------------------------
(* Where a block goes. *)

\* The gap behind an entry ends at the next, or at the end of the pool.
LEMMA GapFacts ==
    ASSUME NEW b, NEW c, IsTable(b), IsList(b, c), NEW j \in 1..Len(c)
    PROVE  /\ GapAfter(b, c[j]) \in Int
           /\ b[c[j]].nextblock = IF j = Len(c) THEN NOBLOCK ELSE c[j + 1]
           /\ GapAfter(b, c[j]) =
                  (IF j = Len(c) THEN 1 + MEMPOOL_SIZE ELSE b[c[j + 1]].begin)
                  - EndOf(b, c[j])
           /\ EndOf(b, c[j]) \in Nat
<1>1. j \in DOMAIN c /\ Len(c) \in Nat /\ c[j] \in Nodes
  BY ListFacts
<1>2. b[c[j]].nextblock = IF j = Len(c) THEN NOBLOCK ELSE c[j + 1]
  BY <1>1 DEF IsList
<1>3. EndOf(b, c[j]) \in Nat
  BY <1>1, ListFacts DEF EndOf
<1>4. CASE j = Len(c)
  BY <1>2, <1>3, <1>4, MemoryAssumption DEF GapAfter
<1>5. CASE j # Len(c)
  <2>1. c[j + 1] \in Blocks
    BY <1>1, <1>5, ListFacts
  <2>2. c[j + 1] # NOBLOCK /\ b[c[j + 1]].begin \in Nat
    BY <2>1, ListFacts DEF Nodes, Blocks, NOBLOCK
  <2> QED BY <1>2, <1>3, <1>5, <2>2 DEF GapAfter
<1> QED BY <1>4, <1>5

\* Where the entries are: each behind those before it, all inside the pool.
LEMMA OrderFacts ==
    ASSUME NEW b, NEW c, IsTable(b), IsList(b, c)
    PROVE  /\ \A j \in 1..Len(c) : /\ EndOf(b, c[j]) \in Nat /\ b[c[j]].begin \in Nat
                                   /\ b[c[j]].begin <= EndOf(b, c[j])
                                   /\ 1 <= EndOf(b, c[j])
                                   /\ EndOf(b, c[j]) <= 1 + MEMPOOL_SIZE
           /\ \A i, j \in 1..Len(c) : i < j => EndOf(b, c[i]) <= b[c[j]].begin
<1>1. Len(c) \in Nat /\ Len(c) >= 1 /\ DOMAIN c = 1..Len(c)
  BY ListFacts
<1>2. \A i, j \in 1..Len(c) : i < j => EndOf(b, c[i]) <= b[c[j]].begin
  BY <1>1 DEF IsList
<1>3. ASSUME NEW j \in 1..Len(c)
      PROVE  /\ EndOf(b, c[j]) \in Nat /\ b[c[j]].begin \in Nat
             /\ b[c[j]].begin <= EndOf(b, c[j])
  BY ListFacts DEF EndOf
<1>4. ASSUME NEW j \in 1..Len(c)
      PROVE  EndOf(b, c[j]) <= 1 + MEMPOOL_SIZE
  BY <1>1 DEF IsList
<1>5. ASSUME NEW j \in 1..Len(c)
      PROVE  1 <= EndOf(b, c[j])
  <2>1. EndOf(b, c[1]) = 1
    BY DEF IsList, IsTable, EndOf
  <2>2. CASE j = 1
    BY <2>1, <2>2
  <2>3. CASE j # 1
    <3>1. 1 \in 1..Len(c) /\ 1 < j
      BY <1>1, <2>3
    <3>2. EndOf(b, c[1]) <= b[c[j]].begin
      BY <3>1, <1>2
    <3> QED BY <2>1, <3>2, <1>3
  <2> QED BY <2>2, <2>3
<1> QED BY <1>2, <1>3, <1>4, <1>5

\* The gap behind an entry is large enough.
HasGap(b, h, n) == GapAfter(b, h) >= n

\* What is put into a gap ends before the entries behind it.
LEMMA GapRoom ==
    ASSUME NEW b, NEW c, IsTable(b), IsList(b, c),
           NEW j \in 1..Len(c), NEW n \in Nat, HasGap(b, c[j], n)
    PROVE  /\ \A i \in 1..Len(c) : i > j => EndOf(b, c[j]) + n <= b[c[i]].begin
           /\ EndOf(b, c[j]) + n <= 1 + MEMPOOL_SIZE
<1>1. PICK k \in Nat : k = Len(c)
  BY ListFacts
<1>2. PICK e \in Nat : e = EndOf(b, c[j])
  BY GapFacts
<1>3. MEMPOOL_SIZE \in Nat /\ j \in Nat /\ j <= k
  BY <1>1, MemoryAssumption
<1>4. /\ \A i \in 1..k : /\ EndOf(b, c[i]) \in Nat /\ b[c[i]].begin \in Nat
                         /\ b[c[i]].begin <= EndOf(b, c[i])
                         /\ EndOf(b, c[i]) <= 1 + MEMPOOL_SIZE
      /\ \A i, l \in 1..k : i < l => EndOf(b, c[i]) <= b[c[l]].begin
  BY <1>1, OrderFacts
<1>5. CASE j = k
  <2>1. GapAfter(b, c[j]) = 1 + MEMPOOL_SIZE - e
    <3>1. GapAfter(b, c[j]) =
              (IF j = Len(c) THEN 1 + MEMPOOL_SIZE ELSE b[c[j + 1]].begin) - EndOf(b, c[j])
      BY GapFacts
    <3> QED BY <3>1, <1>1, <1>2, <1>3, <1>5
  <2>2. e + n <= 1 + MEMPOOL_SIZE
    <3>1. 1 + MEMPOOL_SIZE - e >= n
      BY <2>1 DEF HasGap
    <3> QED BY <3>1, <1>3
  <2>3. \A i \in 1..k : ~(i > j)
    BY <1>5
  <2> QED BY <2>2, <2>3, <1>1, <1>2
<1>6. CASE j # k
  <2>1. PICK l \in 1..k : l = j + 1
    BY <1>3, <1>6
  <2>2. PICK x \in Nat : x = b[c[l]].begin
    BY <1>4
  <2>3. GapAfter(b, c[j]) = x - e
    <3>1. GapAfter(b, c[j]) =
              (IF j = Len(c) THEN 1 + MEMPOOL_SIZE ELSE b[c[j + 1]].begin) - EndOf(b, c[j])
      BY GapFacts
    <3> QED BY <3>1, <1>1, <1>2, <1>6, <2>1, <2>2
  <2>4. e + n <= x
    <3>1. x - e >= n
      BY <2>3 DEF HasGap
    <3> QED BY <3>1
  <2>5. ASSUME NEW i \in 1..k, i > j
        PROVE  e + n <= b[c[i]].begin
    <3>1. CASE i = l
      BY <3>1, <2>2, <2>4
    <3>2. CASE i # l
      <4>1. EndOf(b, c[l]) <= b[c[i]].begin
        <5>1. l < i
          BY <2>1, <2>5, <3>2, <1>3
        <5> QED BY <5>1, <1>4
      <4>2. PICK y, z \in Nat : y = EndOf(b, c[l]) /\ z = b[c[i]].begin
        BY <1>4
      <4>3. x <= y
        BY <4>2, <2>2, <1>4
      <4>4. y <= z
        BY <4>1, <4>2
      <4> QED BY <4>2, <4>3, <4>4, <2>4
    <3> QED BY <3>1, <3>2
  <2>6. e + n <= 1 + MEMPOOL_SIZE
    <3>1. PICK y \in Nat : y = EndOf(b, c[l])
      BY <1>4
    <3>2. x <= y /\ y <= 1 + MEMPOOL_SIZE
      BY <3>1, <2>2, <1>4
    <3> QED BY <3>2, <2>4, <1>3
  <2> QED BY <2>5, <2>6, <1>1, <1>2
<1> QED BY <1>5, <1>6

\* When there is a gap that is large enough, the best is one.
LEMMA BestIs ==
    ASSUME NEW b, NEW c, IsTable(b), IsList(b, c), NEW n \in Nat,
           Fits(b, n) # {}
    PROVE  \E j \in 1..Len(c) : Best(b, n) = c[j] /\ GapAfter(b, c[j]) >= n
<1>1. Chain(b) = c
  BY ChainIs
<1>2. DOMAIN c = 1..Len(c) /\ Len(c) \in Nat
  BY ListFacts
<1> DEFINE F == Fits(b, n)
           gap(j) == GapAfter(b, c[j])
           better(j, k) == gap(j) < gap(k) \/ (gap(j) = gap(k) /\ j <= k)
<1>3. F \in SUBSET Nat /\ F # {} /\ \A j \in F : j \in 1..Len(c) /\ gap(j) >= n
  BY <1>1, <1>2 DEF Fits
<1>4. \A j \in F : gap(j) \in Nat
  BY <1>3, GapFacts
<1> HIDE DEF F, gap
<1>5. PICK g \in {gap(j) : j \in F} : \A h \in {gap(j) : j \in F} : g <= h
  <2>1. {gap(j) : j \in F} \in SUBSET Nat /\ {gap(j) : j \in F} # {}
    BY <1>3, <1>4
  <2> QED BY <2>1, LeastNatural
<1>6. PICK j \in {k \in F : gap(k) = g} : \A k \in {k \in F : gap(k) = g} : j <= k
  <2>1. {k \in F : gap(k) = g} \in SUBSET Nat /\ {k \in F : gap(k) = g} # {}
    BY <1>3, <1>5
  <2> QED BY <2>1, LeastNatural
<1>7. j \in F /\ \A k \in F : better(j, k)
  <2>1. j \in F /\ gap(j) = g
    OBVIOUS
  <2>2. ASSUME NEW l \in F
        PROVE  better(j, l)
    <3>1. g <= gap(l) /\ gap(l) \in Nat /\ g \in Nat /\ j \in Nat /\ l \in Nat
      BY <1>3, <1>4, <1>5, <2>1
    <3>2. gap(l) = g => j <= l
      BY <1>6
    <3> QED BY <3>1, <3>2, <2>1
  <2> QED BY <2>1, <2>2
<1>8. Best(b, n) = c[CHOOSE i \in F : \A k \in F : better(i, k)]
  BY <1>1 DEF Best, F, gap
<1>9. (CHOOSE i \in F : \A k \in F : better(i, k)) \in F
  <2> HIDE DEF better
  <2> QED BY <1>7
<1> QED
  BY <1>3, <1>8, <1>9 DEF gap

\* The entry that is found is free.
LEMMA EntryIs ==
    ASSUME NEW b, IsTable(b), Entries(b) # {}
    PROVE  Entry(b) \in Blocks /\ b[Entry(b)].size = 0
<1>1. Entries(b) \in SUBSET Nat
  BY MemoryAssumption DEF Entries, Blocks
<1>2. \E h \in Entries(b) : \A k \in Entries(b) : h <= k
  BY <1>1, LeastNatural
<1>3. Entry(b) \in Entries(b)
  BY <1>2 DEF Entry
<1> QED BY <1>3 DEF Entries

-----------------------------------------------------------------------------
(* What a call does to the list. *)

\* An element put into a sequence of k behind the j-th.
InsertedAt(c, k, j, x) ==
    [i \in 1..(k + 1) |-> IF i <= j THEN c[i] ELSE IF i = j + 1 THEN x ELSE c[i - 1]]

\* The elements of such a sequence d, its neighbours, and which comes before which.
IsInsertion(c, k, j, x, d) ==
    /\ d \in Seq(Nodes) /\ Len(d) = k + 1 /\ DOMAIN d = 1..(k + 1) /\ d[1] = c[1]
    /\ \A i \in 1..(k + 1) :
           \/ /\ i \in 1..k /\ i # k + 1 /\ i # k /\ i # j /\ i + 1 \in 1..k
              /\ d[i] = c[i] /\ d[i + 1] = c[i + 1]
           \/ i # k + 1 /\ d[i] = c[j] /\ d[i + 1] = x
           \/ i = k + 1 /\ j = k /\ d[i] = x
           \/ i # k + 1 /\ j # k /\ d[i] = x /\ d[i + 1] = c[j + 1]
           \/ \E l \in 1..k : /\ l # j /\ d[i] = c[l]
                              /\ l = k => i = k + 1
                              /\ l # k => i # k + 1 /\ d[i + 1] = c[l + 1]
    /\ {d[i] : i \in 2..(k + 1)} = {x} \cup {c[i] : i \in 2..k}
    /\ \A i, l \in 1..(k + 1) : i < l =>
           \/ \E y, z \in 1..k : y < z /\ d[i] = c[y] /\ d[l] = c[z]
           \/ \E z \in 1..k : j < z /\ d[i] = x /\ d[l] = c[z]
           \/ \E y \in 1..k : y <= j /\ d[i] = c[y] /\ d[l] = x
    /\ \A i \in 1..(k + 1) : d[i] = x \/ \E l \in 1..k : d[i] = c[l]

\* A sequence into which an element is put is such a sequence.
LEMMA InsertedAtIs ==
    ASSUME NEW k \in Nat, NEW c, \A i \in 1..k : c[i] \in Nodes,
           NEW j \in 1..k, NEW x \in Nodes, NEW d, d = InsertedAt(c, k, j, x)
    PROVE  IsInsertion(c, k, j, x, d)
<1>1. j \in Nat /\ 1 <= j /\ j <= k
  OBVIOUS
<1>2. /\ \A i \in 1..(k + 1) : i <= j => d[i] = c[i]
      /\ d[j + 1] = x
      /\ \A i \in 1..(k + 1) : i > j + 1 => d[i] = c[i - 1]
      /\ DOMAIN d = 1..(k + 1)
  BY DEF InsertedAt
<1>3. \A i \in 1..(k + 1) : d[i] \in Nodes
  <2> TAKE i \in 1..(k + 1)
  <2>1. CASE i <= j
    BY <2>1, <1>2
  <2>2. CASE i = j + 1
    BY <2>2, <1>2
  <2>3. CASE i > j + 1
    <3>1. i - 1 \in 1..k
      BY <2>3
    <3> QED BY <2>3, <3>1, <1>2
  <2> QED BY <2>1, <2>2, <2>3
<1>4. d \in Seq(Nodes) /\ Len(d) = k + 1
  <2>1. d \in [1..(k + 1) -> Nodes] /\ k + 1 \in Nat
    BY <1>3 DEF InsertedAt
  <2> QED BY <2>1
<1>5. d[1] = c[1]
  BY <1>2
<1>6. \A i \in 1..(k + 1) : d[i] = x \/ \E l \in 1..k : d[i] = c[l]
  <2> TAKE i \in 1..(k + 1)
  <2>1. CASE i <= j
    BY <2>1, <1>2
  <2>2. CASE i = j + 1
    BY <2>2, <1>2
  <2>3. CASE i > j + 1
    <3>1. i - 1 \in 1..k
      BY <2>3
    <3> QED BY <2>3, <3>1, <1>2
  <2> QED BY <2>1, <2>2, <2>3
<1>7. ASSUME NEW i \in 1..(k + 1)
      PROVE  \/ /\ i \in 1..k /\ i # k + 1 /\ i # k /\ i # j /\ i + 1 \in 1..k
                /\ d[i] = c[i] /\ d[i + 1] = c[i + 1]
             \/ i # k + 1 /\ d[i] = c[j] /\ d[i + 1] = x
             \/ i = k + 1 /\ j = k /\ d[i] = x
             \/ i # k + 1 /\ j # k /\ d[i] = x /\ d[i + 1] = c[j + 1]
             \/ \E l \in 1..k : /\ l # j /\ d[i] = c[l]
                                /\ l = k => i = k + 1
                                /\ l # k => i # k + 1 /\ d[i + 1] = c[l + 1]
  <2>1. CASE i < j
    <3>1. i \in 1..k /\ i # k + 1 /\ i # k /\ i # j /\ i + 1 \in 1..k
          /\ i + 1 \in 1..(k + 1) /\ i + 1 <= j
      BY <2>1
    <3> QED BY <2>1, <3>1, <1>2
  <2>2. CASE i = j
    BY <2>2, <1>2
  <2>3. CASE i = j + 1 /\ j = k
    BY <2>3, <1>2
  <2>4. CASE i = j + 1 /\ j # k
    <3>1. i + 1 \in 1..(k + 1) /\ i + 1 > j + 1 /\ (i + 1) - 1 = j + 1
      BY <2>4
    <3> QED BY <2>4, <3>1, <1>2
  <2>5. CASE i > j + 1
    <3>1. PICK l \in 1..k : l = i - 1
      BY <2>5
    <3>2. l # j /\ d[i] = c[l]
      BY <2>5, <3>1, <1>2
    <3>3. l = k => i = k + 1
      BY <3>1
    <3>4. ASSUME l # k
          PROVE  i # k + 1 /\ d[i + 1] = c[l + 1]
      <4>1. i + 1 \in 1..(k + 1) /\ i + 1 > j + 1 /\ (i + 1) - 1 = l + 1
        BY <2>5, <3>1, <3>4
      <4> QED BY <3>1, <3>4, <4>1, <1>2
    <3> QED BY <3>2, <3>3, <3>4
  <2> QED BY <2>1, <2>2, <2>3, <2>4, <2>5
<1>8. {d[i] : i \in 2..(k + 1)} = {x} \cup {c[i] : i \in 2..k}
  <2>1. ASSUME NEW i \in 2..(k + 1)
        PROVE  d[i] = x \/ \E l \in 2..k : d[i] = c[l]
    <3>1. CASE i <= j
      <4>1. i \in 2..k /\ i \in 1..(k + 1)
        BY <3>1
      <4> QED BY <3>1, <4>1, <1>2
    <3>2. CASE i = j + 1
      BY <3>2, <1>2
    <3>3. CASE i > j + 1
      <4>1. i - 1 \in 2..k /\ i \in 1..(k + 1)
        BY <3>3
      <4> QED BY <3>3, <4>1, <1>2
    <3> QED BY <3>1, <3>2, <3>3
  <2>2. \E i \in 2..(k + 1) : d[i] = x
    <3>1. j + 1 \in 2..(k + 1)
      OBVIOUS
    <3> QED BY <3>1, <1>2
  <2>3. ASSUME NEW l \in 2..k
        PROVE  \E i \in 2..(k + 1) : d[i] = c[l]
    <3>1. CASE l <= j
      <4>1. l \in 2..(k + 1) /\ l \in 1..(k + 1)
        OBVIOUS
      <4> QED BY <3>1, <4>1, <1>2
    <3>2. CASE l > j
      <4>1. l + 1 \in 2..(k + 1) /\ l + 1 \in 1..(k + 1) /\ l + 1 > j + 1 /\ (l + 1) - 1 = l
        BY <3>2
      <4> QED BY <4>1, <1>2
    <3> QED BY <3>1, <3>2
  <2>4. {d[i] : i \in 2..(k + 1)} \subseteq {x} \cup {c[i] : i \in 2..k}
    BY <2>1
  <2>5. {x} \cup {c[i] : i \in 2..k} \subseteq {d[i] : i \in 2..(k + 1)}
    BY <2>2, <2>3
  <2> QED BY <2>4, <2>5
<1>9. ASSUME NEW i \in 1..(k + 1), NEW l \in 1..(k + 1), i < l
      PROVE  \/ \E y, z \in 1..k : y < z /\ d[i] = c[y] /\ d[l] = c[z]
             \/ \E z \in 1..k : j < z /\ d[i] = x /\ d[l] = c[z]
             \/ \E y \in 1..k : y <= j /\ d[i] = c[y] /\ d[l] = x
  <2>1. CASE l <= j
    <3>1. i \in 1..k /\ l \in 1..k /\ i <= j
      BY <2>1, <1>9
    <3> QED BY <2>1, <3>1, <1>2, <1>9
  <2>2. CASE l = j + 1
    <3>1. i \in 1..k /\ i <= j
      BY <2>2, <1>9
    <3> QED BY <2>2, <3>1, <1>2
  <2>3. CASE l > j + 1
    <3>1. PICK z \in 1..k : z = l - 1 /\ j < z
      BY <2>3
    <3>2. d[l] = c[z]
      BY <2>3, <3>1, <1>2
    <3>3. CASE i <= j
      <4>1. i \in 1..k /\ i < z
        BY <3>1, <3>3
      <4> QED BY <3>2, <3>3, <4>1, <1>2
    <3>4. CASE i = j + 1
      BY <3>1, <3>2, <3>4, <1>2
    <3>5. CASE i > j + 1
      <4>1. i - 1 \in 1..k /\ i - 1 < z
        BY <3>1, <3>5, <1>9
      <4> QED BY <3>2, <3>5, <4>1, <1>2
    <3> QED BY <3>3, <3>4, <3>5
  <2> QED BY <2>1, <2>2, <2>3
<1> QED
  BY <1>2, <1>4, <1>5, <1>6, <1>7, <1>8, <1>9 DEF IsInsertion

\* What allocBlock() does to the table.
Inserted(b, before, n, new) ==
    [b EXCEPT ![before].nextblock = new,
              ![new] = [begin |-> EndOf(b, before), size |-> n,
                        nextblock |-> b[before].nextblock]]

\* The free entry new is to become a block of n bytes.
IsNew(b, n, new) == n > 0 /\ b[new].size = 0

\* A free entry that is put into a large enough gap is in the list, in its place.
LEMMA InsertKeeps ==
    ASSUME NEW b, NEW c, IsTable(b), IsList(b, c),
           NEW j \in 1..Len(c), NEW n \in Nat, HasGap(b, c[j], n),
           NEW new \in Blocks, IsNew(b, n, new),
           NEW b2, b2 = Inserted(b, c[j], n, new)
    PROVE  /\ IsTable(b2)
           /\ \E d : IsList(b2, d)
           /\ \A h \in Nodes : h # new => /\ b2[h].begin = b[h].begin
                                          /\ b2[h].size = b[h].size
           /\ b2[new].begin = EndOf(b, c[j]) /\ b2[new].size = n
<1>0. PICK k \in Nat : k = Len(c)
  BY ListFacts
<1>1. /\ DOMAIN b = Nodes
      /\ k >= 1 /\ j \in 1..k
      /\ \A i \in 1..k : c[i] \in Nodes
      /\ \A i \in 2..k : c[i] \in Blocks /\ b[c[i]].size > 0
      /\ \A h \in Nodes : /\ b[h].begin \in Nat
                          /\ b[h].size \in Nat
                          /\ b[h].nextblock \in Nodes
      /\ \A i, l \in 1..k : c[i] = c[l] => i = l
  BY <1>0, ListFacts
<1>2. c[1] = POOLSTART /\ new # POOLSTART /\ new \in Nodes
  BY DEF IsList, Blocks, POOLSTART, Nodes
<1>3. \A i \in 1..k : c[i] # new
  <2> TAKE i \in 1..k
  <2>1. CASE i = 1
    BY <2>1, <1>2
  <2>2. CASE i # 1
    <3>1. b[c[i]].size > 0
      BY <2>2, <1>1
    <3> QED BY <3>1 DEF IsNew
  <2> QED BY <2>1, <2>2
<1>4. /\ DOMAIN b2 = Nodes
      /\ \A h \in Nodes : h # new /\ h # c[j] => b2[h] = b[h]
      /\ b2[new] = [begin |-> EndOf(b, c[j]), size |-> n,
                    nextblock |-> b[c[j]].nextblock]
      /\ b2[c[j]] = [b[c[j]] EXCEPT !.nextblock = new]
      /\ b2 = [h \in Nodes |-> b2[h]]
  <2>1. b2 = [b EXCEPT ![c[j]].nextblock = new,
                       ![new] = [begin |-> EndOf(b, c[j]), size |-> n,
                                 nextblock |-> b[c[j]].nextblock]]
    BY DEF Inserted
  <2>2. c[j] \in Nodes /\ c[j] # new
    BY <1>1, <1>3
  <2> QED BY <2>1, <2>2, <1>1, <1>2
<1>5. b2[c[j]].nextblock = new /\ b2[c[j]].begin = b[c[j]].begin
          /\ b2[c[j]].size = b[c[j]].size
  <2>1. b[c[j]] \in [begin : Nat, size : Nat, nextblock : Blocks \cup {NOBLOCK}]
    BY <1>1 DEF IsTable, Nodes
  <2> QED BY <1>4, <2>1
<1>6. PICK e \in Nat : e = EndOf(b, c[j])
  BY GapFacts
<1>7. \A h \in Nodes : h # new => b2[h].begin = b[h].begin /\ b2[h].size = b[h].size
                                  /\ EndOf(b2, h) = EndOf(b, h)
  BY <1>4, <1>5 DEF EndOf
<1>8. b2[new].begin = e /\ b2[new].size = n /\ EndOf(b2, new) = e + n
          /\ b2[new].nextblock = b[c[j]].nextblock
  BY <1>4, <1>6 DEF EndOf
<1>9. IsTable(b2)
  <2>1. ASSUME NEW h \in Nodes
        PROVE  b2[h] \in [begin : Nat, size : Nat, nextblock : Blocks \cup {NOBLOCK}]
    <3>1. b[h] \in [begin : Nat, size : Nat, nextblock : Blocks \cup {NOBLOCK}]
      BY DEF IsTable, Nodes
    <3>2. CASE h = new
      <4>1. b[c[j]].nextblock \in Blocks \cup {NOBLOCK}
        BY <1>1 DEF Nodes, NOBLOCK, POOLSTART
      <4> QED BY <3>2, <4>1, <1>4, <1>6
    <3>3. CASE h = c[j]
      BY <3>1, <3>3, <1>4
    <3>4. CASE h # new /\ h # c[j]
      BY <3>1, <3>4, <1>4
    <3> QED BY <3>2, <3>3, <3>4
  <2>2. b2 \in [Nodes -> [begin : Nat, size : Nat, nextblock : Blocks \cup {NOBLOCK}]]
    BY <2>1, <1>4
  <2>3. b2[POOLSTART].begin = 1 /\ b2[POOLSTART].size = 0
    BY <1>7, <1>2 DEF IsTable, Nodes
  <2>4. ASSUME NEW h \in Blocks, b2[h].size = 0
        PROVE  b2[h].nextblock = NOBLOCK
    <3>1. h # new
      BY <2>4, <1>8 DEF IsNew
    <3>2. h # c[j]
      <4>1. CASE j = 1
        BY <4>1, <1>2 DEF Blocks, POOLSTART
      <4>2. CASE j # 1
        <5>1. b[c[j]].size > 0
          BY <4>2, <1>1
        <5> QED BY <5>1, <2>4, <1>5
      <4> QED BY <4>1, <4>2
    <3>3. b2[h] = b[h]
      BY <3>1, <3>2, <1>4 DEF Nodes
    <3> QED BY <3>3, <2>4 DEF IsTable
  <2> QED BY <2>2, <2>3, <2>4 DEF IsTable, Nodes
<1>10. PICK d : IsInsertion(c, k, j, new, d)
  <2>1. \A i \in 1..k : c[i] \in Nodes
    BY <1>1
  <2>2. j \in 1..k /\ new \in Nodes
    BY <1>1, <1>2
  <2>3. PICK d : d = InsertedAt(c, k, j, new)
    OBVIOUS
  <2>4. IsInsertion(c, k, j, new, d)
    BY <2>1, <2>2, <2>3, InsertedAtIs
  <2> QED BY <2>4
<1>11. /\ d \in Seq(Nodes) /\ Len(d) = k + 1 /\ DOMAIN d = 1..(k + 1) /\ d[1] = c[1]
       /\ {d[i] : i \in 2..(k + 1)} = {new} \cup {c[i] : i \in 2..k}
       /\ \A i \in 1..(k + 1) : d[i] = new \/ \E l \in 1..k : d[i] = c[l]
  BY <1>10 DEF IsInsertion
<1>12. \A i \in 1..k : /\ b2[c[i]].begin = b[c[i]].begin
                       /\ EndOf(b2, c[i]) = EndOf(b, c[i])
                       /\ i # j => b2[c[i]].nextblock = b[c[i]].nextblock
  <2> TAKE i \in 1..k
  <2>1. c[i] \in Nodes /\ c[i] # new
    BY <1>1, <1>3
  <2>2. i # j => c[i] # c[j]
    BY <1>1
  <2> QED BY <2>1, <2>2, <1>4, <1>7
<1>13. ASSUME NEW i \in 1..(k + 1)
       PROVE  b2[d[i]].nextblock = IF i = k + 1 THEN NOBLOCK ELSE d[i + 1]
  <2>0. \A l \in 1..k : b[c[l]].nextblock = IF l = k THEN NOBLOCK ELSE c[l + 1]
    BY <1>0, GapFacts
  <2>1. \/ /\ i \in 1..k /\ i # k + 1 /\ i # k /\ i # j /\ i + 1 \in 1..k
           /\ d[i] = c[i] /\ d[i + 1] = c[i + 1]
        \/ i # k + 1 /\ d[i] = c[j] /\ d[i + 1] = new
        \/ i = k + 1 /\ j = k /\ d[i] = new
        \/ i # k + 1 /\ j # k /\ d[i] = new /\ d[i + 1] = c[j + 1]
        \/ \E l \in 1..k : /\ l # j /\ d[i] = c[l]
                           /\ l = k => i = k + 1
                           /\ l # k => i # k + 1 /\ d[i + 1] = c[l + 1]
    BY <1>10 DEF IsInsertion
  <2>2. CASE /\ i \in 1..k /\ i # k + 1 /\ i # k /\ i # j /\ i + 1 \in 1..k
             /\ d[i] = c[i] /\ d[i + 1] = c[i + 1]
    BY <2>0, <2>2, <1>12
  <2>3. CASE i # k + 1 /\ d[i] = c[j] /\ d[i + 1] = new
    BY <2>3, <1>5
  <2>4. CASE i = k + 1 /\ j = k /\ d[i] = new
    BY <2>0, <2>4, <1>1, <1>8
  <2>5. CASE i # k + 1 /\ j # k /\ d[i] = new /\ d[i + 1] = c[j + 1]
    BY <2>0, <2>5, <1>1, <1>8
  <2>6. CASE \E l \in 1..k : /\ l # j /\ d[i] = c[l]
                             /\ l = k => i = k + 1
                             /\ l # k => i # k + 1 /\ d[i + 1] = c[l + 1]
    <3>1. PICK l \in 1..k : /\ l # j /\ d[i] = c[l]
                            /\ l = k => i = k + 1
                            /\ l # k => i # k + 1 /\ d[i + 1] = c[l + 1]
      BY <2>6
    <3>2. b2[d[i]].nextblock = b[c[l]].nextblock
      BY <3>1, <1>12
    <3>3. CASE l = k
      BY <2>0, <3>1, <3>2, <3>3
    <3>4. CASE l # k
      BY <2>0, <3>1, <3>2, <3>4
    <3> QED BY <3>3, <3>4
  <2> QED BY <2>1, <2>2, <2>3, <2>4, <2>5, <2>6
<1>14. {d[i] : i \in 2..(k + 1)} = {h \in Blocks : b2[h].size > 0}
  <2>1. {c[i] : i \in 2..k} = {h \in Blocks : b[h].size > 0}
    BY <1>0 DEF IsList
  <2>2. \A h \in Blocks : h # new => b2[h].size = b[h].size
    BY <1>7 DEF Nodes
  <2>3. b2[new].size > 0
    BY <1>8 DEF IsNew
  <2> QED BY <2>1, <2>2, <2>3, <1>11
<1>15. /\ \A i \in 1..k : /\ EndOf(b, c[i]) \in Nat /\ b[c[i]].begin \in Nat
                          /\ b[c[i]].begin <= EndOf(b, c[i])
                          /\ EndOf(b, c[i]) <= 1 + MEMPOOL_SIZE
       /\ \A i, l \in 1..k : i < l => EndOf(b, c[i]) <= b[c[l]].begin
  BY <1>0, OrderFacts
<1>16. /\ \A i \in 1..k : i > j => e + n <= b[c[i]].begin
       /\ e + n <= 1 + MEMPOOL_SIZE
  BY <1>0, <1>6, GapRoom
<1>17. ASSUME NEW i \in 1..(k + 1), NEW l \in 1..(k + 1), i < l
       PROVE  EndOf(b2, d[i]) <= b2[d[l]].begin
  <2>1. \/ \E y, z \in 1..k : y < z /\ d[i] = c[y] /\ d[l] = c[z]
        \/ \E z \in 1..k : j < z /\ d[i] = new /\ d[l] = c[z]
        \/ \E y \in 1..k : y <= j /\ d[i] = c[y] /\ d[l] = new
    BY <1>10, <1>17 DEF IsInsertion
  <2>2. CASE \E y, z \in 1..k : y < z /\ d[i] = c[y] /\ d[l] = c[z]
    BY <2>2, <1>12, <1>15
  <2>3. CASE \E z \in 1..k : j < z /\ d[i] = new /\ d[l] = c[z]
    BY <2>3, <1>8, <1>12, <1>16
  <2>4. CASE \E y \in 1..k : y <= j /\ d[i] = c[y] /\ d[l] = new
    <3>1. PICK y \in 1..k : y <= j /\ d[i] = c[y] /\ d[l] = new
      BY <2>4
    <3>2. EndOf(b, c[y]) <= e
      <4>1. CASE y = j
        BY <4>1, <1>6
      <4>2. CASE y # j
        <5>1. PICK x, z \in Nat : x = EndOf(b, c[y]) /\ z = b[c[j]].begin
          BY <1>1, <1>15
        <5>2. x <= z /\ z <= e
          <6>1. y < j
            BY <3>1, <4>2
          <6> QED BY <5>1, <6>1, <1>1, <1>6, <1>15
        <5> QED BY <5>1, <5>2
      <4> QED BY <4>1, <4>2
    <3> QED BY <3>1, <3>2, <1>8, <1>12
  <2> QED BY <2>1, <2>2, <2>3, <2>4
<1>18. \A i \in 1..(k + 1) : EndOf(b2, d[i]) <= 1 + MEMPOOL_SIZE
  <2> TAKE i \in 1..(k + 1)
  <2>1. CASE d[i] = new
    <3>1. EndOf(b2, d[i]) = e + n
      BY <2>1, <1>8
    <3> QED BY <3>1, <1>16
  <2>2. CASE \E l \in 1..k : d[i] = c[l]
    <3>1. PICK l \in 1..k : d[i] = c[l]
      BY <2>2
    <3>2. EndOf(b2, d[i]) = EndOf(b, c[l]) /\ EndOf(b, c[l]) <= 1 + MEMPOOL_SIZE
      BY <3>1, <1>12, <1>15
    <3> QED BY <3>2
  <2> QED BY <2>1, <2>2, <1>11
<1>19. IsList(b2, d)
  <2>1. d \in Seq(DOMAIN b2) /\ d # <<>> /\ d[1] = POOLSTART
    BY <1>2, <1>4, <1>11
  <2> QED BY <2>1, <1>11, <1>13, <1>14, <1>17, <1>18 DEF IsList
<1> QED
  BY <1>6, <1>7, <1>8, <1>9, <1>19

Records == [begin : Nat, size : Nat, nextblock : Nodes]

\* The list without a block of it, to which nothing leads any more.
LEMMA RemoveKeeps ==
    ASSUME NEW b, NEW c, IsTable(b), IsList(b, c), NEW j \in 2..Len(c),
           NEW b2 \in [Nodes -> Records],
           \A h \in Nodes : h # c[j] => /\ b2[h].begin = b[h].begin
                                        /\ b2[h].size = b[h].size,
           \A h \in Nodes : h # c[j] /\ h # c[j - 1] => b2[h].nextblock = b[h].nextblock,
           b2[c[j - 1]].nextblock = b[c[j]].nextblock,
           b2[c[j]].size = 0, b2[c[j]].nextblock = NOBLOCK
    PROVE  IsTable(b2) /\ \E d : IsList(b2, d)
<1> DEFINE k == Len(c)
           d == [i \in 1..(k - 1) |-> IF i < j THEN c[i] ELSE c[i + 1]]
<1>1. /\ DOMAIN b = Nodes
      /\ k \in Nat /\ k >= 1 /\ DOMAIN c = 1..k
      /\ \A i \in 1..k : c[i] \in Nodes
      /\ \A i \in 2..k : c[i] \in Blocks /\ b[c[i]].size > 0
      /\ \A h \in Nodes : /\ b[h].begin \in Nat
                          /\ b[h].size \in Nat
                          /\ b[h].nextblock \in Nodes
      /\ \A i, l \in 1..k : c[i] = c[l] => i = l
  BY ListFacts
<1>2. \A l \in 1..k : b[c[l]].nextblock = IF l = k THEN NOBLOCK ELSE c[l + 1]
  BY GapFacts
<1>3. /\ c[1] = POOLSTART
      /\ {c[i] : i \in 2..k} = {h \in Blocks : b[h].size > 0}
      /\ \A i, l \in 1..k : i < l => EndOf(b, c[i]) <= b[c[l]].begin
      /\ \A i \in 1..k : EndOf(b, c[i]) <= 1 + MEMPOOL_SIZE
  BY <1>1 DEF IsList
<1>4. j \in 2..k
  OBVIOUS
<1> HIDE DEF k
<1>5. j - 1 \in 1..k /\ j \in 1..k /\ j - 1 # j
  BY <1>1, <1>4
<1>6. c[j - 1] # c[j] /\ c[j - 1] \in Nodes /\ c[j] \in Nodes
  BY <1>1, <1>5
<1>7. DOMAIN b2 = Nodes
  OBVIOUS
<1>10. \A h \in Nodes : h # c[j] => EndOf(b2, h) = EndOf(b, h)
  BY DEF EndOf
<1>11. IsTable(b2)
  <2>2. b2 \in [Nodes -> [begin : Nat, size : Nat, nextblock : Nodes]]
    BY DEF Records
  <2>3. b2[POOLSTART].begin = 1 /\ b2[POOLSTART].size = 0
    <3>1. POOLSTART # c[j] /\ POOLSTART \in Nodes
      BY <1>1, <1>4 DEF Blocks, POOLSTART, Nodes
    <3> QED BY <3>1 DEF IsTable
  <2>4. \A h \in Blocks : b2[h].size = 0 => b2[h].nextblock = NOBLOCK
    <3> TAKE h \in Blocks
    <3>1. CASE h = c[j]
      BY <3>1
    <3>2. CASE h = c[j - 1]
      <4>1. j - 1 # 1
        BY <3>2, <1>3 DEF Blocks, POOLSTART
      <4>2. j - 1 \in 2..k
        BY <1>5, <4>1
      <4> QED BY <3>2, <1>6, <1>1, <4>2
    <3>3. CASE h # c[j - 1] /\ h # c[j]
      BY <3>3 DEF IsTable, Nodes
    <3> QED BY <3>1, <3>2, <3>3
  <2>5. Nodes = Blocks \cup {NOBLOCK} /\ Nodes = Blocks \cup {POOLSTART}
    BY DEF Nodes, NOBLOCK, POOLSTART
  <2> QED BY <2>2, <2>3, <2>4, <2>5 DEF IsTable
<1>12. /\ \A i \in 1..(j - 1) : d[i] = c[i]
       /\ \A i \in j..(k - 1) : d[i] = c[i + 1]
       /\ DOMAIN d = 1..(k - 1)
  BY <1>1, <1>4
<1>13. d \in Seq(Nodes) /\ Len(d) = k - 1
  <2>1. \A i \in 1..(k - 1) : d[i] \in Nodes
    BY <1>1
  <2>2. d \in [1..(k - 1) -> Nodes] /\ k - 1 \in Nat
    BY <2>1, <1>1
  <2> HIDE DEF d
  <2>3. d \in Seq(Nodes)
    BY <2>2
  <2>4. DOMAIN d = 1..(k - 1)
    BY <2>2
  <2> QED BY <2>2, <2>3, <2>4
<1> HIDE DEF d
<1>14. d # <<>> /\ d[1] = POOLSTART
  BY <1>12, <1>13, <1>3, <1>4, <1>1
\* Every node of d is one of c, and they are in the same order.
<1> DEFINE at(i) == IF i < j THEN i ELSE i + 1
<1>15. /\ \A i \in 1..(k - 1) : d[i] = c[at(i)] /\ at(i) \in 1..k /\ at(i) # j
                                /\ c[at(i)] # c[j]
       /\ \A i, l \in 1..(k - 1) : i < l => at(i) < at(l)
  <2>1. \A i \in 1..(k - 1) : at(i) \in 1..k /\ at(i) # j
    BY <1>1, <1>4
  <2>2. \A i \in 1..(k - 1) : d[i] = c[at(i)]
    <3> TAKE i \in 1..(k - 1)
    <3>1. CASE i < j
      <4>1. i \in 1..(j - 1)
        BY <3>1, <1>4
      <4> QED BY <4>1, <3>1, <1>12
    <3>2. CASE ~(i < j)
      <4>1. i \in j..(k - 1)
        BY <3>2, <1>4, <1>1
      <4> QED BY <4>1, <3>2, <1>12
    <3> QED BY <3>1, <3>2
  <2>3. \A i, l \in 1..(k - 1) : i < l => at(i) < at(l)
    BY <1>1, <1>4
  <2>4. \A i \in 1..(k - 1) : c[at(i)] # c[j]
    <3> HIDE DEF at
    <3> QED BY <2>1, <1>1, <1>5
  <2> HIDE DEF at
  <2> QED BY <2>1, <2>2, <2>3, <2>4
<1>16. \A i \in 1..(k - 1) : b2[d[i]].nextblock = IF i = k - 1 THEN NOBLOCK ELSE d[i + 1]
  <2> TAKE i \in 1..(k - 1)
  <2>1. CASE i = j - 1
    <3>1. b2[d[i]].nextblock = IF j = k THEN NOBLOCK ELSE c[j + 1]
      <4>1. d[i] = c[j - 1]
        BY <2>1, <1>4, <1>5, <1>12
      <4>2. b[c[j]].nextblock = IF j = k THEN NOBLOCK ELSE c[j + 1]
        BY <1>2, <1>5
      <4> QED BY <4>1, <4>2
    <3>2. j # k => d[i + 1] = c[j + 1]
      <4>1. j # k => j \in j..(k - 1)
        BY <1>4, <1>1
      <4>2. i + 1 = j
        BY <2>1, <1>4
      <4> QED BY <4>1, <4>2, <1>12
    <3> QED BY <3>1, <3>2, <2>1, <1>4, <1>1
  <2>2. CASE i # j - 1
    <3>1. at(i) # j - 1 /\ at(i) \in 1..k
      BY <2>2, <1>1, <1>4
    <3>2. c[at(i)] # c[j - 1] /\ c[at(i)] # c[j] /\ c[at(i)] \in Nodes /\ d[i] = c[at(i)]
      <4> HIDE DEF at
      <4> QED BY <3>1, <1>1, <1>5, <1>15
    <3>3. b2[d[i]].nextblock = IF at(i) = k THEN NOBLOCK ELSE c[at(i) + 1]
      <4> HIDE DEF at
      <4> QED BY <3>1, <3>2, <1>2
    <3>4. i # k - 1 => at(i + 1) = at(i) + 1 /\ i + 1 \in 1..(k - 1) /\ at(i) # k
      BY <2>2, <1>1, <1>4
    <3>5. i = k - 1 => at(i) = k
      BY <2>2, <1>1, <1>4
    <3>6. i # k - 1 => d[i + 1] = c[at(i) + 1]
      <4> HIDE DEF at
      <4> QED BY <3>4, <1>15
    <3> HIDE DEF at
    <3> QED BY <3>3, <3>4, <3>5, <3>6
  <2> QED BY <2>1, <2>2
<1>17. {d[i] : i \in 2..Len(d)} = {h \in Blocks : b2[h].size > 0}
  <2>1. \A i \in 2..(k - 1) : d[i] \in Blocks /\ b2[d[i]].size > 0
    <3> TAKE i \in 2..(k - 1)
    <3>1. at(i) \in 2..k /\ i \in 1..(k - 1)
      BY <1>1, <1>4
    <3> HIDE DEF at
    <3>2. d[i] = c[at(i)] /\ c[at(i)] # c[j] /\ c[at(i)] \in Blocks /\ b[c[at(i)]].size > 0
      BY <3>1, <1>15, <1>1
    <3> QED BY <3>2 DEF Nodes
  <2>2. ASSUME NEW h \in Blocks, b2[h].size > 0
        PROVE  \E i \in 2..(k - 1) : d[i] = h
    <3>1. h # c[j] /\ h \in Nodes
      BY <2>2 DEF Nodes
    <3>2. b[h].size > 0
      BY <2>2, <3>1
    <3>3. PICK l \in 2..k : c[l] = h
      BY <3>2, <1>3
    <3>4. CASE l < j
      <4>1. l \in 1..(j - 1) /\ l \in 2..(k - 1)
        BY <3>4, <1>4, <1>1
      <4> QED BY <4>1, <3>3, <1>12
    <3>5. CASE l > j
      <4>1. l - 1 \in j..(k - 1) /\ l - 1 \in 2..(k - 1) /\ (l - 1) + 1 = l
        BY <3>5, <1>4, <1>1
      <4> QED BY <4>1, <3>3, <1>12
    <3> QED BY <3>1, <3>3, <3>4, <3>5, <1>4
  <2>3. {d[i] : i \in 2..(k - 1)} \subseteq {h \in Blocks : b2[h].size > 0}
    BY <2>1
  <2>4. {h \in Blocks : b2[h].size > 0} \subseteq {d[i] : i \in 2..(k - 1)}
    BY <2>2
  <2> QED BY <2>3, <2>4, <1>13
<1>18. \A i, l \in 1..(k - 1) : i < l => EndOf(b2, d[i]) <= b2[d[l]].begin
  <2> HIDE DEF at
  <2> SUFFICES ASSUME NEW i \in 1..(k - 1), NEW l \in 1..(k - 1), i < l
               PROVE  EndOf(b2, d[i]) <= b2[d[l]].begin
    OBVIOUS
  <2>1. EndOf(b, c[at(i)]) <= b[c[at(l)]].begin
    BY <1>15, <1>3
  <2> QED BY <2>1, <1>15, <1>1, <1>10
<1>19. \A i \in 1..(k - 1) : EndOf(b2, d[i]) <= 1 + MEMPOOL_SIZE
  <2> HIDE DEF at
  <2> TAKE i \in 1..(k - 1)
  <2>1. EndOf(b, c[at(i)]) <= 1 + MEMPOOL_SIZE
    BY <1>15, <1>3
  <2> QED BY <2>1, <1>15, <1>1, <1>10
<1>20. IsList(b2, d)
  <2>1. d \in Seq(DOMAIN b2)
    BY <1>7, <1>13
  <2> QED BY <2>1, <1>12, <1>13, <1>14, <1>16, <1>17, <1>18, <1>19 DEF IsList
<1> QED
  BY <1>11, <1>20

\* freeBlock() goes along the list; whatever it meets, there is one block
\* before the one it looks for.
LEMMA BeforeIs ==
    ASSUME NEW b, NEW c, IsTable(b), IsList(b, c), NEW j \in 2..Len(c)
    PROVE  (CHOOSE x \in DOMAIN b : b[x].nextblock = c[j]) = c[j - 1]
<1>1. j - 1 \in 1..Len(c) /\ j - 1 # Len(c) /\ (j - 1) + 1 = j
  BY ListFacts
<1>2. c[j - 1] \in DOMAIN b /\ b[c[j - 1]].nextblock = c[j]
  BY <1>1, ListFacts, GapFacts
<1>3. ASSUME NEW x \in DOMAIN b, b[x].nextblock = c[j]
      PROVE  x = c[j - 1]
  <2>1. c[j] # NOBLOCK /\ x \in Nodes
    BY ListFacts DEF Blocks, NOBLOCK
  <2>2. \E i \in 1..Len(c) : c[i] = x
    <3>1. CASE x = POOLSTART
      BY <3>1, ListFacts DEF IsList
    <3>2. CASE x # POOLSTART
      <4>1. x \in Blocks /\ b[x].size \in Nat
        BY <2>1, <3>2, ListFacts DEF Nodes
      <4>2. b[x].size > 0
        BY <4>1, <2>1, <1>3 DEF IsTable
      <4>3. x \in {c[i] : i \in 2..Len(c)}
        BY <4>1, <4>2 DEF IsList
      <4> QED BY <4>3
    <3> QED BY <3>1, <3>2
  <2>3. PICK i \in 1..Len(c) : c[i] = x
    BY <2>2
  <2>4. i # Len(c) /\ c[i + 1] = c[j]
    BY <2>1, <2>3, <1>3, GapFacts
  <2>5. i + 1 \in 1..Len(c) /\ j \in 1..Len(c)
    BY <2>4, ListFacts
  <2>6. i + 1 = j
    BY <2>4, <2>5, ListFacts
  <2> QED BY <2>3, <2>6
<1> QED BY <1>2, <1>3

\* Blocks that are cut where they are stay one list.
LEMMA CutKeeps ==
    ASSUME NEW b, NEW c, IsTable(b), IsList(b, c),
           NEW b2 \in [Nodes -> Records], b2[POOLSTART] = b[POOLSTART],
           \A h \in Nodes : /\ b2[h].nextblock = b[h].nextblock
                            /\ b2[h].size > 0 <=> b[h].size > 0
                            /\ b[h].begin <= b2[h].begin
                            /\ EndOf(b2, h) <= EndOf(b, h)
    PROVE  IsTable(b2) /\ IsList(b2, c)
<1>1. /\ DOMAIN b = Nodes
      /\ Len(c) \in Nat /\ Len(c) >= 1 /\ DOMAIN c = 1..Len(c)
      /\ \A i \in 1..Len(c) : c[i] \in Nodes
  BY ListFacts
<1>2. \A h \in Nodes : b2[h].begin \in Nat /\ b2[h].size \in Nat /\ b[h].size \in Nat
                       /\ b[h].begin \in Nat /\ EndOf(b2, h) \in Nat /\ EndOf(b, h) \in Nat
  <2> TAKE h \in Nodes
  <2>1. b2[h].begin \in Nat /\ b2[h].size \in Nat
    <3>1. b2[h] \in Records
      OBVIOUS
    <3> QED BY <3>1 DEF Records
  <2>2. b[h].begin \in Nat /\ b[h].size \in Nat
    BY ListFacts
  <2> QED BY <2>1, <2>2 DEF EndOf
<1>5. IsTable(b2)
  <2>2. b2 \in [Nodes -> [begin : Nat, size : Nat, nextblock : Nodes]]
    BY DEF Records
  <2>3. b2[POOLSTART].begin = 1 /\ b2[POOLSTART].size = 0
    BY DEF IsTable
  <2>4. \A g \in Blocks : b2[g].size = 0 => b2[g].nextblock = NOBLOCK
    <3> TAKE g \in Blocks
    <3>1. g \in Nodes
      BY DEF Nodes
    <3>2. b2[g].size = 0 => b[g].size = 0
      BY <3>1, <1>2
    <3> QED BY <3>1, <3>2 DEF IsTable
  <2>5. Nodes = Blocks \cup {NOBLOCK} /\ Nodes = Blocks \cup {POOLSTART}
    BY DEF Nodes, NOBLOCK, POOLSTART
  <2> QED BY <2>2, <2>3, <2>4, <2>5 DEF IsTable
<1>7. \A i, j \in 1..Len(c) : i < j => EndOf(b2, c[i]) <= b2[c[j]].begin
  <2> SUFFICES ASSUME NEW i \in 1..Len(c), NEW j \in 1..Len(c), i < j
               PROVE  EndOf(b2, c[i]) <= b2[c[j]].begin
    OBVIOUS
  <2>1. EndOf(b, c[i]) <= b[c[j]].begin
    BY <1>1 DEF IsList
  <2>2. c[i] \in Nodes /\ c[j] \in Nodes
    BY <1>1
  <2>3. EndOf(b2, c[i]) <= EndOf(b, c[i]) /\ b[c[j]].begin <= b2[c[j]].begin
    BY <2>2
  <2>4. EndOf(b2, c[i]) \in Nat /\ EndOf(b, c[i]) \in Nat
          /\ b[c[j]].begin \in Nat /\ b2[c[j]].begin \in Nat
    BY <2>2, <1>2
  <2> QED BY <2>1, <2>3, <2>4
<1>8. \A j \in 1..Len(c) : EndOf(b2, c[j]) <= 1 + MEMPOOL_SIZE
  <2> TAKE j \in 1..Len(c)
  <2>1. EndOf(b, c[j]) <= 1 + MEMPOOL_SIZE
    BY <1>1 DEF IsList
  <2>2. c[j] \in Nodes /\ MEMPOOL_SIZE \in Nat
    BY <1>1, MemoryAssumption
  <2> QED BY <2>1, <2>2, <1>2
<1>9. {c[j] : j \in 2..Len(c)} = {g \in Blocks : b2[g].size > 0}
  <2>1. {g \in Blocks : b2[g].size > 0} = {g \in Blocks : b[g].size > 0}
    BY DEF Nodes
  <2> QED BY <2>1 DEF IsList
<1>10. \A j \in 1..Len(c) : b2[c[j]].nextblock = IF j = Len(c) THEN NOBLOCK ELSE c[j + 1]
  <2> TAKE j \in 1..Len(c)
  <2>1. b[c[j]].nextblock = IF j = Len(c) THEN NOBLOCK ELSE c[j + 1]
    BY GapFacts
  <2> QED BY <2>1, <1>1
<1>11. c \in Seq(DOMAIN b2) /\ c # <<>> /\ c[1] = POOLSTART
  BY <1>1 DEF IsList
<1> QED
  BY <1>1, <1>5, <1>7, <1>8, <1>9, <1>10, <1>11 DEF IsList
-----------------------------------------------------------------------------
(* The collection. *)

\* A block of the list lies inside the pool.
LEMMA AddressFacts ==
    ASSUME NEW b, NEW c, IsTable(b), IsList(b, c), NEW i \in 2..Len(c)
    PROVE  /\ 1 <= b[c[i]].begin
           /\ \A x \in Nat : x < b[c[i]].size =>
                  /\ b[c[i]].begin + x \in Addresses
                  /\ b[c[i]].begin + x < EndOf(b, c[i])
<1>1. i \in 1..Len(c) /\ 1 \in 1..Len(c) /\ 1 < i /\ DOMAIN c = 1..Len(c)
  BY ListFacts
<1>2. EndOf(b, c[1]) = 1
  BY DEF IsList, IsTable, EndOf
<1>3. EndOf(b, c[1]) <= b[c[i]].begin
  BY <1>1 DEF IsList
<1>4. b[c[i]].begin \in Nat /\ b[c[i]].size \in Nat
  BY <1>1, ListFacts
<1>5. EndOf(b, c[i]) <= 1 + MEMPOOL_SIZE
  BY <1>1 DEF IsList
<1>6. PICK u, v \in Nat : u = b[c[i]].begin /\ v = b[c[i]].size
  BY <1>4
<1>7. 1 <= u /\ u + v <= 1 + MEMPOOL_SIZE /\ EndOf(b, c[i]) = u + v
  <2>1. EndOf(b, c[i]) = u + v
    BY <1>6 DEF EndOf
  <2> QED BY <2>1, <1>2, <1>3, <1>5, <1>6
<1>8. ASSUME NEW x \in Nat, x < v
      PROVE  u + x \in Addresses /\ u + x < u + v
  BY <1>7, <1>8, MemoryAssumption DEF Addresses
<1> QED
  BY <1>6, <1>7, <1>8

\* A round of the loop: block c[j] is moved to the end of the one before it.
MoveOne(b, c, j, p) ==
    LET dest == EndOf(p.b, c[j - 1])
    IN  [b |-> [p.b EXCEPT ![c[j]].begin = dest],
         m |-> Moved(p.m, dest, b[c[j]].begin, b[c[j]].size)]

\* The function upto of Collected exists: u[j] is the pool after round j.
LEMMA CollectedDefined ==
    ASSUME NEW b, NEW m, NEW c, Chain(b) = c, NEW k \in Nat, Len(c) = k, k >= 1,
           DOMAIN c = 1..k
    PROVE  \E u : /\ Collected(b, m) = u[k]
                  /\ u[1] = [b |-> b, m |-> m]
                  /\ \A j \in 2..k : u[j] = MoveOne(b, c, j, u[j - 1])
<1> DEFINE Round(j, p) == IF j = 1 THEN [b |-> b, m |-> m] ELSE MoveOne(b, c, j, p)
           Is(f, n) == f = [i \in 1..n |-> Round(i, f[i - 1])]
           S == {n \in Nat : \E f : Is(f, n)}
<1>0. \A v, w : Round(1, v) = Round(1, w)
  OBVIOUS
<1>1. 1 \in S
  <2> DEFINE g == [i \in 1..1 |-> Round(i, 0)]
  <2> HIDE DEF Round
  <2>1. \A i \in 1..1 : Round(i, 0) = Round(i, g[i - 1])
    <3> TAKE i \in 1..1
    <3>1. i = 1
      OBVIOUS
    <3> HIDE DEF g
    <3> QED BY <3>1, <1>0
  <2>2. g = [i \in 1..1 |-> Round(i, g[i - 1])]
    BY <2>1
  <2>3. \E f : Is(f, 1)
    <3> HIDE DEF g
    <3> QED BY <2>2
  <2> QED BY <2>3, Zenon DEF S
<1>2. ASSUME NEW n \in Nat, n >= 1 /\ n \in S
      PROVE  n + 1 \in S
  <2>1. PICK f : Is(f, n)
    BY <1>2
  <2> DEFINE g == [i \in 1..(n + 1) |-> Round(i, f[i - 1])]
  <2> HIDE DEF Round
  <2>2. \A i \in 1..n : g[i] = f[i]
    BY <2>1
  <2>4. \A i \in 1..(n + 1) : Round(i, f[i - 1]) = Round(i, g[i - 1])
    <3> TAKE i \in 1..(n + 1)
    <3>1. CASE i = 1
      <4> HIDE DEF g
      <4> QED BY <3>1, <1>0
    <3>2. CASE i # 1
      <4>1. i - 1 \in 1..n
        BY <3>2
      <4>2. g[i - 1] = f[i - 1]
        BY <4>1, <2>2
      <4> HIDE DEF g
      <4> QED BY <4>2
    <3> QED BY <3>1, <3>2
  <2>5. Is(g, n + 1)
    BY <2>4
  <2>6. \E x : Is(x, n + 1)
    <3> HIDE DEF g, Is
    <3> QED BY <2>5
  <2>7. n + 1 \in Nat
    OBVIOUS
  <2> QED BY <2>6, <2>7, Zenon
<1>3. \A n \in Nat : n >= 1 => n \in S
  <2> HIDE DEF S
  <2> QED BY <1>1, <1>2, SetInduction
<1>5. \E f : Is(f, k)
  BY <1>3
<1> DEFINE F == CHOOSE f : Is(f, k)
<1>6. Is(F, k)
  BY <1>5
<1>7. Collected(b, m) = F[k]
  BY DEF Collected, MoveOne
<1>8. \A n \in 1..k : F[n] = Round(n, F[n - 1])
  <2> HIDE DEF F, Round
  <2> QED BY <1>6
<1>9. F[1] = [b |-> b, m |-> m]
  <2> HIDE DEF F
  <2> QED BY <1>8
<1>10. \A j \in 2..k : F[j] = MoveOne(b, c, j, F[j - 1])
  <2> HIDE DEF F, MoveOne
  <2> QED BY <1>8
<1> QED
  BY <1>7, <1>9, <1>10

\* After the round of c[j]: the blocks up to it are packed, those behind are
\* where they were, and every block holds what it held.
CollectedTo(b, m, c, j, p) ==
    /\ IsTable(p.b) /\ IsList(p.b, c)
    /\ \A h \in Nodes : /\ p.b[h].size = b[h].size
                        /\ p.b[h].nextblock = b[h].nextblock
    /\ \A i \in 1..Len(c) : i > j => p.b[c[i]].begin = b[c[i]].begin
    /\ \A i \in 2..Len(c) : i <= j => p.b[c[i]].begin = EndOf(p.b, c[i - 1])
    /\ DOMAIN p.m = Addresses
    /\ \A i \in 2..Len(c) : \A x \in Nat : x < b[c[i]].size =>
           p.m[p.b[c[i]].begin + x] = m[b[c[i]].begin + x]

\* A round of the loop: nothing that is still to be moved is written over.
LEMMA MoveOneKeeps ==
    ASSUME NEW b, NEW m, NEW c, IsTable(b), IsList(b, c),
           NEW p, NEW j \in 2..Len(c), CollectedTo(b, m, c, j - 1, p),
           NEW q, q = MoveOne(b, c, j, p)
    PROVE  CollectedTo(b, m, c, j, q)
<1> DEFINE dest == EndOf(p.b, c[j - 1])
           src == b[c[j]].begin
           n == b[c[j]].size
<1>1. /\ IsTable(p.b) /\ IsList(p.b, c)
      /\ \A h \in Nodes : /\ p.b[h].size = b[h].size
                          /\ p.b[h].nextblock = b[h].nextblock
      /\ \A i \in 1..Len(c) : i > j - 1 => p.b[c[i]].begin = b[c[i]].begin
      /\ \A i \in 2..Len(c) : i <= j - 1 => p.b[c[i]].begin = EndOf(p.b, c[i - 1])
      /\ DOMAIN p.m = Addresses
      /\ \A i \in 2..Len(c) : \A x \in Nat : x < b[c[i]].size =>
             p.m[p.b[c[i]].begin + x] = m[b[c[i]].begin + x]
  BY DEF CollectedTo
<1>2. PICK pb : pb = p.b
  OBVIOUS
<1>3. PICK pm : pm = p.m
  OBVIOUS
<1>4. PICK qb : qb = q.b
  OBVIOUS
<1>5. PICK qm : qm = q.m
  OBVIOUS
<1>6. /\ DOMAIN pb = Nodes
      /\ Len(c) \in Nat /\ Len(c) >= 1 /\ DOMAIN c = 1..Len(c)
      /\ \A i \in 1..Len(c) : c[i] \in Nodes
      /\ \A i \in 2..Len(c) : c[i] \in Blocks /\ pb[c[i]].size > 0
      /\ \A h \in Nodes : /\ pb[h].begin \in Nat
                          /\ pb[h].size \in Nat
                          /\ pb[h].nextblock \in Nodes
      /\ \A i, l \in 1..Len(c) : c[i] = c[l] => i = l
  BY <1>1, <1>2, ListFacts
<1>7. /\ {c[i] : i \in 2..Len(c)} = {h \in Blocks : pb[h].size > 0}
      /\ \A i, l \in 1..Len(c) : i < l => EndOf(pb, c[i]) <= pb[c[l]].begin
      /\ \A i \in 1..Len(c) : EndOf(pb, c[i]) <= 1 + MEMPOOL_SIZE
      /\ \A i \in 1..Len(c) : pb[c[i]].nextblock = IF i = Len(c) THEN NOBLOCK ELSE c[i + 1]
      /\ c \in Seq(Nodes) /\ c # <<>> /\ c[1] = POOLSTART
  BY <1>1, <1>2, <1>6 DEF IsList
<1>8. \A h \in Nodes : pb[h].size = b[h].size /\ pb[h].nextblock = b[h].nextblock
  BY <1>1, <1>2
<1>9. j - 1 \in 1..Len(c) /\ j \in 1..Len(c) /\ j - 1 < j /\ c[j] \in Nodes /\ c[j - 1] \in Nodes
  BY <1>6
<1>10. src = pb[c[j]].begin /\ n = pb[c[j]].size
  BY <1>1, <1>2, <1>9
<1>11. \A h \in Nodes : EndOf(pb, h) \in Nat /\ EndOf(pb, h) >= pb[h].begin
  BY <1>6 DEF EndOf
<1>12. PICK d \in Nat : d = EndOf(pb, c[j - 1])
  BY <1>9, <1>11
<1>13. d <= src /\ 1 <= d /\ src \in Nat /\ n \in Nat /\ EndOf(pb, c[j]) = src + n
  <2>1. d <= src
    BY <1>7, <1>9, <1>10, <1>12
  <2>2. 1 <= d
    <3>1. CASE j - 1 = 1
      <4>1. EndOf(pb, c[1]) = 1
        BY <1>1, <1>2, <1>7 DEF IsTable, EndOf
      <4> QED BY <3>1, <4>1, <1>12
    <3>2. CASE j - 1 # 1
      <4>1. j - 1 \in 2..Len(c)
        BY <3>2, <1>9
      <4>2. 1 <= pb[c[j - 1]].begin
        BY <1>1, <1>2, <4>1, AddressFacts
      <4> QED BY <4>2, <1>12, <1>11, <1>9, <1>6
    <3> QED BY <3>1, <3>2
  <2> QED BY <2>1, <2>2, <1>6, <1>9, <1>10 DEF EndOf
<1>14. /\ qb = [pb EXCEPT ![c[j]].begin = d]
       /\ qm = Moved(pm, d, src, n)
  BY <1>2, <1>3, <1>4, <1>5, <1>12 DEF MoveOne
<1>15. /\ \A h \in Nodes : h # c[j] => qb[h] = pb[h]
       /\ qb[c[j]] = [pb[c[j]] EXCEPT !.begin = d]
       /\ qb \in [Nodes -> Records]
  <2>1. pb \in [Nodes -> Records]
    BY <1>1, <1>2 DEF IsTable, Nodes, Records, NOBLOCK, POOLSTART
  <2>2. [pb[c[j]] EXCEPT !.begin = d] \in Records
    BY <2>1, <1>9 DEF Records
  <2> QED BY <2>1, <2>2, <1>9, <1>14
<1>16. qb[c[j]].begin = d /\ qb[c[j]].size = n /\ qb[c[j]].nextblock = pb[c[j]].nextblock
  <2>1. pb[c[j]] \in Records
    BY <1>1, <1>2, <1>9 DEF IsTable, Nodes, Records, NOBLOCK, POOLSTART
  <2> QED BY <2>1, <1>10, <1>15 DEF Records
<1> HIDE DEF dest, src, n
<1>17. \A h \in Nodes : /\ qb[h].size = pb[h].size
                        /\ qb[h].nextblock = pb[h].nextblock
                        /\ h # c[j] => qb[h].begin = pb[h].begin /\ EndOf(qb, h) = EndOf(pb, h)
  BY <1>10, <1>15, <1>16 DEF EndOf
<1>18. EndOf(qb, c[j]) = d + n
  BY <1>16 DEF EndOf
<1>19. \A i \in 1..Len(c) : i # j => c[i] # c[j]
  BY <1>6, <1>9
<1>20. IsTable(qb)
  <2>1. qb[POOLSTART].begin = 1 /\ qb[POOLSTART].size = 0
    <3>1. POOLSTART # c[j] /\ POOLSTART \in Nodes
      BY <1>6 DEF Blocks, POOLSTART, Nodes
    <3> QED BY <3>1, <1>17, <1>1, <1>2 DEF IsTable
  <2>2. \A h \in Blocks : qb[h].size = 0 => qb[h].nextblock = NOBLOCK
    BY <1>17, <1>1, <1>2 DEF IsTable, Nodes
  <2>3. Nodes = Blocks \cup {NOBLOCK} /\ Nodes = Blocks \cup {POOLSTART}
    BY DEF Nodes, NOBLOCK, POOLSTART
  <2>4. qb \in [Nodes -> [begin : Nat, size : Nat, nextblock : Nodes]]
    BY <1>15 DEF Records
  <2> QED BY <2>1, <2>2, <2>3, <2>4 DEF IsTable
<1>21. \A i \in 1..Len(c) : i < j => EndOf(pb, c[i]) <= d
  <2> SUFFICES ASSUME NEW i \in 1..Len(c), i < j
               PROVE  EndOf(pb, c[i]) <= d
    OBVIOUS
  <2>1. CASE i = j - 1
    BY <2>1, <1>12
  <2>2. CASE i # j - 1
    <3>1. EndOf(pb, c[i]) <= pb[c[j - 1]].begin
      BY <2>2, <1>7, <1>9
    <3> QED BY <3>1, <1>6, <1>9, <1>11, <1>12
  <2> QED BY <2>1, <2>2
<1>22. \A i, l \in 1..Len(c) : i < l => EndOf(qb, c[i]) <= qb[c[l]].begin
  <2> SUFFICES ASSUME NEW i \in 1..Len(c), NEW l \in 1..Len(c), i < l
               PROVE  EndOf(qb, c[i]) <= qb[c[l]].begin
    OBVIOUS
  <2>1. CASE l = j
    BY <2>1, <1>16, <1>17, <1>19, <1>21, <1>6
  <2>2. CASE i = j
    <3>1. EndOf(pb, c[j]) <= pb[c[l]].begin /\ pb[c[l]].begin \in Nat
      BY <2>2, <1>7, <1>6
    <3>2. qb[c[l]].begin = pb[c[l]].begin
      BY <2>2, <1>17, <1>19, <1>6
    <3> QED BY <2>2, <3>1, <3>2, <1>13, <1>18
  <2>3. CASE i # j /\ l # j
    BY <2>3, <1>7, <1>17, <1>19, <1>6
  <2> QED BY <2>1, <2>2, <2>3
<1>23. \A i \in 1..Len(c) : EndOf(qb, c[i]) <= 1 + MEMPOOL_SIZE
  <2> TAKE i \in 1..Len(c)
  <2>1. EndOf(pb, c[i]) <= 1 + MEMPOOL_SIZE
    BY <1>7
  <2>2. CASE i = j
    BY <2>1, <2>2, <1>13, <1>18, MemoryAssumption
  <2>3. CASE i # j
    BY <2>1, <2>3, <1>17, <1>19, <1>6
  <2> QED BY <2>2, <2>3
<1>24. IsList(qb, c)
  <2>1. {c[i] : i \in 2..Len(c)} = {h \in Blocks : qb[h].size > 0}
    BY <1>7, <1>17 DEF Nodes
  <2>2. \A i \in 1..Len(c) : qb[c[i]].nextblock = IF i = Len(c) THEN NOBLOCK ELSE c[i + 1]
    BY <1>7, <1>17, <1>6
  <2>3. DOMAIN qb = Nodes
    BY <1>15
  <2> QED BY <2>1, <2>2, <2>3, <1>6, <1>7, <1>22, <1>23 DEF IsList
<1>25. \A i \in 1..Len(c) : i > j => qb[c[i]].begin = b[c[i]].begin
  BY <1>1, <1>2, <1>17, <1>19, <1>6
<1>26. \A i \in 2..Len(c) : i <= j => qb[c[i]].begin = EndOf(qb, c[i - 1])
  <2> SUFFICES ASSUME NEW i \in 2..Len(c), i <= j
               PROVE  qb[c[i]].begin = EndOf(qb, c[i - 1])
    OBVIOUS
  <2>1. i - 1 \in 1..Len(c) /\ i - 1 # j
    BY <1>6
  <2>2. EndOf(qb, c[i - 1]) = EndOf(pb, c[i - 1])
    BY <2>1, <1>17, <1>19, <1>6
  <2>3. CASE i = j
    BY <2>2, <2>3, <1>12, <1>16
  <2>4. CASE i # j
    <3>1. pb[c[i]].begin = EndOf(pb, c[i - 1])
      BY <2>4, <1>1, <1>2
    <3> QED BY <3>1, <2>2, <2>4, <1>17, <1>19, <1>6
  <2> QED BY <2>3, <2>4
<1>27. DOMAIN qm = Addresses
  BY <1>14 DEF Moved
<1>28. \A i \in 2..Len(c) : \A x \in Nat : x < b[c[i]].size =>
           qm[qb[c[i]].begin + x] = m[b[c[i]].begin + x]
  <2> SUFFICES ASSUME NEW i \in 2..Len(c), NEW x \in Nat, x < b[c[i]].size
               PROVE  qm[qb[c[i]].begin + x] = m[b[c[i]].begin + x]
    OBVIOUS
  <2>1. qb[c[i]].begin + x \in Addresses /\ i \in 1..Len(c) /\ c[i] \in Nodes
    BY <1>20, <1>24, <1>17, <1>8, <1>6, AddressFacts
  <2>2. pm[pb[c[i]].begin + x] = m[b[c[i]].begin + x]
    BY <1>1, <1>2, <1>3
  <2>3. qm[qb[c[i]].begin + x] =
            IF qb[c[i]].begin + x \in d..(d + n - 1)
            THEN pm[src + (qb[c[i]].begin + x) - d]
            ELSE pm[qb[c[i]].begin + x]
    BY <2>1, <1>14 DEF Moved
  <2>4. CASE i = j
    <3>1. d + x \in d..(d + n - 1) /\ src + (d + x) - d = src + x
      <4>1. x < n
        BY <2>4 DEF n
      <4> QED BY <4>1, <1>13
    <3>2. qb[c[i]].begin = d /\ pb[c[i]].begin = src
      BY <2>4, <1>16, <1>10
    <3> QED BY <3>1, <3>2, <2>2, <2>3
  <2>5. CASE i # j
    <3>1. qb[c[i]].begin = pb[c[i]].begin /\ pb[c[i]].begin \in Nat
      BY <2>5, <2>1, <1>17, <1>19, <1>6
    <3>2. pb[c[i]].begin + x < EndOf(pb, c[i])
      BY <2>1, <1>6, <1>8 DEF EndOf
    <3>3. CASE i < j
      <4>1. EndOf(pb, c[i]) <= d /\ EndOf(pb, c[i]) \in Nat
        BY <3>3, <2>1, <1>21, <1>11
      <4> QED BY <3>1, <3>2, <4>1, <2>2, <2>3
    <3>4. CASE i > j
      <4>1. src + n <= pb[c[i]].begin
        BY <3>4, <2>1, <1>7, <1>9, <1>13
      <4>2. ~(pb[c[i]].begin + x \in d..(d + n - 1))
        BY <4>1, <3>1, <1>13
      <4> QED BY <3>1, <4>2, <2>2, <2>3
    <3> QED BY <2>5, <3>3, <3>4
  <2> QED BY <2>4, <2>5
<1>29. \A h \in Nodes : qb[h].size = b[h].size /\ qb[h].nextblock = b[h].nextblock
  BY <1>8, <1>17
<1> QED
  BY <1>4, <1>5, <1>20, <1>24, <1>25, <1>26, <1>27, <1>28, <1>29 DEF CollectedTo

\* The collection keeps the list and packs its blocks.
LEMMA CollectedIs ==
    ASSUME NEW b, NEW m, NEW c, IsTable(b), IsList(b, c), DOMAIN m = Addresses
    PROVE  CollectedTo(b, m, c, Len(c), Collected(b, m))
<1>1. Chain(b) = c
  BY ChainIs
<1>2. Len(c) \in Nat /\ Len(c) >= 1 /\ DOMAIN c = 1..Len(c)
  BY ListFacts
<1>3. PICK u : /\ Collected(b, m) = u[Len(c)]
               /\ u[1] = [b |-> b, m |-> m]
               /\ \A j \in 2..Len(c) : u[j] = MoveOne(b, c, j, u[j - 1])
  BY <1>1, <1>2, CollectedDefined
<1> DEFINE S == {j \in Nat : j <= Len(c) => CollectedTo(b, m, c, j, u[j])}
<1>4. 1 \in S
  BY <1>2, <1>3 DEF CollectedTo
<1>5. ASSUME NEW j \in Nat, j >= 1 /\ j \in S
      PROVE  j + 1 \in S
  <2> SUFFICES ASSUME j + 1 <= Len(c)
               PROVE  CollectedTo(b, m, c, j + 1, u[j + 1])
    OBVIOUS
  <2>1. CollectedTo(b, m, c, j, u[j])
    BY <1>2, <1>5
  <2>2. j + 1 \in 2..Len(c) /\ (j + 1) - 1 = j
    BY <1>2, <1>5
  <2>3. u[j + 1] = MoveOne(b, c, j + 1, u[j])
    BY <1>3, <2>2
  <2> QED BY <2>1, <2>2, <2>3, MoveOneKeeps
<1>6. \A n \in Nat : n >= 1 => n \in S
  <2> HIDE DEF S
  <2> QED BY <1>4, <1>5, SetInduction
<1> QED
  BY <1>2, <1>3, <1>6
-----------------------------------------------------------------------------
(* Blocks by their handles. *)

\* An entry with a size is in the list, inside the pool.
LEMMA BlockFacts ==
    ASSUME NEW b, NEW c, IsTable(b), IsList(b, c), NEW h \in Blocks, b[h].size > 0
    PROVE  /\ \E i \in 2..Len(c) : c[i] = h
           /\ h \in Nodes /\ b[h].begin \in Nat /\ b[h].size \in Nat
           /\ \A x \in Nat : x < b[h].size =>
                  b[h].begin + x \in Addresses /\ b[h].begin + x < EndOf(b, h)
<1>1. PICK i \in 2..Len(c) : c[i] = h
  BY DEF IsList
<1>2. h \in Nodes
  BY DEF Nodes
<1> QED BY <1>1, <1>2, AddressFacts, ListFacts

\* Two blocks do not overlap.
LEMMA Apart ==
    ASSUME NEW b, NEW c, IsTable(b), IsList(b, c),
           NEW g \in Blocks, NEW h \in Blocks, g # h, b[g].size > 0, b[h].size > 0
    PROVE  EndOf(b, g) <= b[h].begin \/ EndOf(b, h) <= b[g].begin
<1>1. PICK i \in 2..Len(c) : c[i] = g
  BY BlockFacts
<1>2. PICK j \in 2..Len(c) : c[j] = h
  BY BlockFacts
<1>3. i < j \/ j < i
  BY <1>1, <1>2, ListFacts
<1>4. i \in DOMAIN c /\ j \in DOMAIN c
  BY ListFacts
<1> QED BY <1>1, <1>2, <1>3, <1>4 DEF IsList

\* Packet(h), in the table b and the memory m.
PacketOf(b, m, h) == [j \in 1..b[h].size |-> m[b[h].begin + j - 1]]

\* The collection keeps every packet.
LEMMA CollectedPackets ==
    ASSUME NEW b, NEW m, NEW c, IsTable(b), IsList(b, c), NEW j, NEW p,
           CollectedTo(b, m, c, j, p), NEW h \in Blocks
    PROVE  PacketOf(p.b, p.m, h) = PacketOf(b, m, h)
<1>1. h \in Nodes /\ b[h].size \in Nat /\ p.b[h].size = b[h].size
  BY ListFacts DEF Nodes, CollectedTo
<1>2. \A x \in 1..b[h].size : p.m[p.b[h].begin + x - 1] = m[b[h].begin + x - 1]
  <2> SUFFICES ASSUME NEW x \in 1..b[h].size
               PROVE  p.m[p.b[h].begin + x - 1] = m[b[h].begin + x - 1]
    OBVIOUS
  <2>1. b[h].size > 0 /\ x - 1 \in Nat /\ x - 1 < b[h].size
    BY <1>1
  <2>2. PICK i \in 2..Len(c) : c[i] = h
    BY <2>1, BlockFacts
  <2>3. p.m[p.b[h].begin + (x - 1)] = m[b[h].begin + (x - 1)]
    BY <2>1, <2>2 DEF CollectedTo
  <2>4. p.b[h].begin \in Nat /\ b[h].begin \in Nat
    BY <1>1, ListFacts DEF CollectedTo
  <2>5. p.b[h].begin + (x - 1) = p.b[h].begin + x - 1
          /\ b[h].begin + (x - 1) = b[h].begin + x - 1
    BY <2>4
  <2> QED BY <2>3, <2>5
<1> QED
  BY <1>1, <1>2 DEF PacketOf

-----------------------------------------------------------------------------
(* Room: the bytes that are taken, counted by their addresses. *)

\* Taken of PacketPool, in the table b: a byte is its block and its place in it.
TakenOf(b) == UNION {{h} \X (1..b[h].size) : h \in Blocks}

\* A byte that is taken belongs to a block.
LEMMA TakenIs ==
    ASSUME NEW b, IsTable(b)
    PROVE  \A t : t \in TakenOf(b) <=>
               \E h \in Blocks : \E x \in 1..b[h].size : t = <<h, x>>
BY DEF TakenOf

\* Where a byte is.
AddressOf(b) == [t \in TakenOf(b) |-> b[t[1]].begin + t[2] - 1]

\* No two bytes are at the same address.
LEMMA AddressOfFacts ==
    ASSUME NEW b, NEW c, IsTable(b), IsList(b, c)
    PROVE  /\ \A t \in TakenOf(b) :
                  \E i \in 2..Len(c) :
                      /\ t[1] = c[i] /\ t[2] \in 1..b[c[i]].size
                      /\ AddressOf(b)[t] = b[c[i]].begin + t[2] - 1
                      /\ AddressOf(b)[t] \in Addresses
                      /\ b[c[i]].begin <= AddressOf(b)[t]
                      /\ AddressOf(b)[t] < EndOf(b, c[i])
           /\ \A s, t \in TakenOf(b) : AddressOf(b)[s] = AddressOf(b)[t] => s = t
<1>1. ASSUME NEW t \in TakenOf(b)
      PROVE  \E i \in 2..Len(c) :
                      /\ t[1] = c[i] /\ t[2] \in 1..b[c[i]].size
                      /\ AddressOf(b)[t] = b[c[i]].begin + t[2] - 1
                      /\ AddressOf(b)[t] \in Addresses
                      /\ b[c[i]].begin <= AddressOf(b)[t]
                      /\ AddressOf(b)[t] < EndOf(b, c[i])
  <2>1. PICK h \in Blocks : \E x \in 1..b[h].size : t = <<h, x>>
    BY TakenIs
  <2>1a. PICK x \in 1..b[h].size : t = <<h, x>>
    BY <2>1
  <2>2. h \in Nodes /\ b[h].begin \in Nat /\ b[h].size \in Nat
    BY ListFacts DEF Nodes
  <2>3. b[h].size > 0 /\ x - 1 \in Nat /\ x - 1 < b[h].size
    BY <2>2
  <2>4. PICK i \in 2..Len(c) : c[i] = h
    BY <2>3, BlockFacts
  <2>5. b[h].begin + (x - 1) \in Addresses /\ b[h].begin + (x - 1) < EndOf(b, h)
    BY <2>3, BlockFacts
  <2>6. AddressOf(b)[t] = b[h].begin + x - 1 /\ b[h].begin + x - 1 = b[h].begin + (x - 1)
    BY <2>1a, <2>2 DEF AddressOf
  <2>7. t[1] = h /\ t[2] = x
    BY <2>1a
  <2>8. b[h].begin <= AddressOf(b)[t]
    BY <2>2, <2>6
  <2> QED BY <2>4, <2>5, <2>6, <2>7, <2>8
<1>2. ASSUME NEW s \in TakenOf(b), NEW t \in TakenOf(b), AddressOf(b)[s] = AddressOf(b)[t]
      PROVE  s = t
  <2>1. PICK g \in Blocks : \E y \in 1..b[g].size : s = <<g, y>>
    BY TakenIs
  <2>1a. PICK y \in 1..b[g].size : s = <<g, y>>
    BY <2>1
  <2>2. PICK h \in Blocks : \E x \in 1..b[h].size : t = <<h, x>>
    BY TakenIs
  <2>2a. PICK x \in 1..b[h].size : t = <<h, x>>
    BY <2>2
  <2>3. /\ g \in Nodes /\ b[g].begin \in Nat /\ b[g].size \in Nat /\ b[g].size > 0
        /\ h \in Nodes /\ b[h].begin \in Nat /\ b[h].size \in Nat /\ b[h].size > 0
    BY ListFacts DEF Nodes
  <2>4. b[g].begin + y - 1 = b[h].begin + x - 1
    BY <1>2, <2>1a, <2>2a DEF AddressOf
  <2>5. g = h
    <3> SUFFICES ASSUME g # h PROVE FALSE
      OBVIOUS
    <3>1. EndOf(b, g) <= b[h].begin \/ EndOf(b, h) <= b[g].begin
      BY <2>3, Apart
    <3> QED BY <2>3, <2>4, <3>1 DEF EndOf
  <2>6. x = y
    BY <2>3, <2>4, <2>5
  <2> QED BY <2>1a, <2>2a, <2>5, <2>6
<1> QED BY <1>1, <1>2

\* What is taken and a gap are together no more than the pool.
LEMMA RoomBesidesGap ==
    ASSUME NEW b, NEW c, IsTable(b), IsList(b, c),
           NEW j \in 1..Len(c), NEW n \in Nat, HasGap(b, c[j], n)
    PROVE  Cardinality(TakenOf(b)) + n <= MEMPOOL_SIZE
<1>1. PICK e \in Nat : e = EndOf(b, c[j])
  BY GapFacts
<1> DEFINE Gap == e..(e + n - 1)
           Rest == Addresses \ Gap
           f == AddressOf(b)
<1>2. MEMPOOL_SIZE \in Nat /\ DOMAIN c = 1..Len(c) /\ Len(c) \in Nat
  BY MemoryAssumption, ListFacts
<1>3. PICK k \in Nat : k = Len(c)
  BY <1>2
<1>4. /\ \A i \in 1..k : /\ EndOf(b, c[i]) \in Nat /\ b[c[i]].begin \in Nat
                         /\ b[c[i]].begin <= EndOf(b, c[i])
      /\ \A i, l \in 1..k : i < l => EndOf(b, c[i]) <= b[c[l]].begin
  BY <1>3, OrderFacts
<1>5. 1 <= e
  BY <1>1, OrderFacts
<1>6. e + n <= 1 + MEMPOOL_SIZE /\ \A i \in 1..k : i > j => e + n <= b[c[i]].begin
  BY <1>1, <1>3, GapRoom
<1>7. \A t \in TakenOf(b) : f[t] \in Rest
  <2> SUFFICES ASSUME NEW t \in TakenOf(b)
               PROVE  f[t] \in Rest
    OBVIOUS
  <2>1. PICK i \in 2..k : /\ f[t] \in Addresses
                          /\ b[c[i]].begin <= f[t]
                          /\ f[t] < EndOf(b, c[i])
    BY <1>3, AddressOfFacts
  <2> HIDE DEF f
  <2>2. PICK a \in Addresses : a = f[t]
    BY <2>1
  <2>3. PICK x, y \in Nat : x = b[c[i]].begin /\ y = EndOf(b, c[i])
    BY <1>4
  <2>4. a \in Nat /\ x <= a /\ a < y /\ i \in 1..k /\ j \in 1..k
    BY <1>3, <2>1, <2>2, <2>3 DEF Addresses
  <2>5. CASE i <= j
    <3>1. y <= e
      <4>1. CASE i = j
        BY <4>1, <1>1, <2>3
      <4>2. CASE i # j
        <5>1. PICK z \in Nat : z = b[c[j]].begin
          BY <1>4, <2>4
        <5>2. i < j
          BY <4>2, <2>4, <2>5
        <5>3. y <= z /\ z <= e
          BY <5>1, <5>2, <1>1, <1>4, <2>3, <2>4
        <5> QED BY <5>3
      <4> QED BY <4>1, <4>2
    <3>2. a < e
      BY <3>1, <2>4
    <3> QED BY <3>2, <2>2, <2>4
  <2>6. CASE i > j
    <3>1. e + n <= x
      BY <2>3, <2>4, <2>6, <1>6
    <3>2. ~(a <= e + n - 1)
      BY <3>1, <2>4
    <3> QED BY <3>2, <2>2, <2>4
  <2> QED BY <2>4, <2>5, <2>6
<1>8. f \in Injection(TakenOf(b), Rest)
  <2>1. f \in [TakenOf(b) -> Rest]
    BY <1>7 DEF AddressOf
  <2>2. \A s, t \in TakenOf(b) : f[s] = f[t] => s = t
    BY AddressOfFacts
  <2> HIDE DEF f
  <2> QED BY <2>1, <2>2 DEF Injection, IsInjective
<1>9. IsFiniteSet(Rest) /\ Cardinality(Rest) = MEMPOOL_SIZE - n
  <2>1. IsFiniteSet(Addresses) /\ Cardinality(Addresses) = MEMPOOL_SIZE
    <3>1. IsFiniteSet(1..MEMPOOL_SIZE)
          /\ Cardinality(1..MEMPOOL_SIZE)
                 = IF 1 > MEMPOOL_SIZE THEN 0 ELSE MEMPOOL_SIZE - 1 + 1
      <4>1. 1 \in Int /\ MEMPOOL_SIZE \in Int
        BY <1>2
      <4> QED BY <4>1, FS_Interval
    <3> QED BY <3>1, <1>2 DEF Addresses
  <2>2. Addresses \cap Gap = Gap
    BY <1>5, <1>6, <1>2 DEF Addresses
  <2>3. Cardinality(Gap) = n
    <3>1. Cardinality(Gap) = IF e > e + n - 1 THEN 0 ELSE e + n - 1 - e + 1
      BY FS_Interval
    <3> QED BY <3>1
  <2> HIDE DEF Gap
  <2>4. /\ IsFiniteSet(Addresses \ Gap)
        /\ Cardinality(Addresses \ Gap)
              = Cardinality(Addresses) - Cardinality(Addresses \cap Gap)
    BY <2>1, FS_Difference
  <2> QED BY <2>1, <2>2, <2>3, <2>4
<1>10. Cardinality(TakenOf(b)) <= Cardinality(Rest) /\ Cardinality(TakenOf(b)) \in Nat
  <2> HIDE DEF f, Rest
  <2> QED BY <1>8, <1>9, FS_Injection, FS_CardinalityType
<1> QED
  BY <1>9, <1>10, <1>2

\* The blocks lie one against the other.
Packed(b, c) == \A i \in 2..Len(c) : b[c[i]].begin = EndOf(b, c[i - 1])

\* Packed blocks take every address up to the end of the last.
LEMMA RoomWhenPacked ==
    ASSUME NEW b, NEW c, IsTable(b), IsList(b, c), Packed(b, c)
    PROVE  Cardinality(TakenOf(b)) = EndOf(b, c[Len(c)]) - 1
<1> DEFINE f == AddressOf(b)
<1>1. Len(c) \in Nat /\ Len(c) >= 1 /\ DOMAIN c = 1..Len(c)
  BY ListFacts
<1>2. PICK e \in Nat : e = EndOf(b, c[Len(c)])
  <2>1. Len(c) \in 1..Len(c)
    BY <1>1
  <2> QED BY <2>1, OrderFacts
<1>3. \A i \in 1..Len(c) : c[i] \in Nodes /\ b[c[i]].begin \in Nat /\ b[c[i]].size \in Nat
                           /\ EndOf(b, c[i]) \in Nat /\ b[c[i]].begin <= EndOf(b, c[i])
  BY ListFacts DEF EndOf
<1> DEFINE Low == 1..(e - 1)
<1>4. \A t \in TakenOf(b) : f[t] \in Low
  <2> SUFFICES ASSUME NEW t \in TakenOf(b)
               PROVE  f[t] \in Low
    OBVIOUS
  <2>1. PICK i \in 2..Len(c) : f[t] \in Addresses /\ f[t] < EndOf(b, c[i])
    BY AddressOfFacts
  <2>1a. i \in DOMAIN c /\ Len(c) \in DOMAIN c /\ i <= Len(c)
    BY <1>1
  <2>2. EndOf(b, c[i]) <= e
    <3>1. CASE i = Len(c)
      BY <3>1, <1>2
    <3>2. CASE i # Len(c)
      <4>1. EndOf(b, c[i]) <= b[c[Len(c)]].begin
        BY <3>2, <1>1, <2>1a DEF IsList
      <4> QED BY <4>1, <1>1, <1>2, <1>3
    <3> QED BY <3>1, <3>2
  <2> HIDE DEF f
  <2> QED BY <2>1, <2>2, <1>1, <1>3 DEF Addresses
<1>5. \A a \in Low : \E t \in TakenOf(b) : f[t] = a
  <2> SUFFICES ASSUME NEW a \in Low
               PROVE  \E t \in TakenOf(b) : f[t] = a
    OBVIOUS
  <2> DEFINE S == {i \in 1..Len(c) : a < EndOf(b, c[i])}
  <2>1. Len(c) \in S /\ S \in SUBSET Nat
    BY <1>1, <1>2
  <2>2. PICK i \in S : \A l \in S : i <= l
    <3> HIDE DEF S
    <3> QED BY <2>1, LeastNatural
  <2>3. i \in 2..Len(c)
    <3>1. EndOf(b, c[1]) = 1
      BY DEF IsList, IsTable, EndOf
    <3> QED BY <3>1, <2>2, <1>1
  <2>4. EndOf(b, c[i - 1]) <= a
    <3>1. i - 1 \in 1..Len(c) /\ i - 1 \notin S
      BY <2>2, <2>3, <1>1
    <3> QED BY <3>1, <1>3
  <2>5. b[c[i]].begin <= a /\ a < EndOf(b, c[i]) /\ c[i] \in Blocks
    BY <2>2, <2>3, <2>4, ListFacts DEF Packed
  <2> HIDE DEF f, Low, S
  <2>5a. a \in Nat
    BY DEF Low
  <2>5b. PICK u, v \in Nat : u = b[c[i]].begin /\ v = b[c[i]].size
    BY <2>3, <1>1, <1>3
  <2>5c. u <= a /\ a < u + v
    BY <2>5, <2>5b DEF EndOf
  <2>6. PICK x \in 1..v : u + x - 1 = a
    <3>1. a - u + 1 \in 1..v /\ u + (a - u + 1) - 1 = a
      BY <2>5a, <2>5c
    <3> QED BY <3>1
  <2>7. <<c[i], x>> \in TakenOf(b)
    BY <2>5, <2>5b, TakenIs
  <2>8. f[<<c[i], x>>] = b[c[i]].begin + x - 1
    BY <2>7 DEF f, AddressOf
  <2>9. f[<<c[i], x>>] = a
    BY <2>5b, <2>6, <2>8
  <2> QED BY <2>7, <2>9
<1>6. f \in [TakenOf(b) -> Low]
  BY <1>4 DEF AddressOf
<1>7. f \in Bijection(TakenOf(b), Low)
  <2>1. \A s, t \in TakenOf(b) : f[s] = f[t] => s = t
    BY AddressOfFacts
  <2> HIDE DEF f, Low
  <2>2. f \in Injection(TakenOf(b), Low)
    BY <1>6, <2>1 DEF Injection, IsInjective
  <2>3. f \in Surjection(TakenOf(b), Low)
    BY <1>5, <1>6 DEF Surjection
  <2> QED BY <2>2, <2>3 DEF Bijection
<1>8. IsFiniteSet(Low) /\ Cardinality(Low) = e - 1
  <2>1. e >= 1
    <3>1. EndOf(b, c[1]) = 1
      BY DEF IsList, IsTable, EndOf
    <3>2. CASE Len(c) = 1
      BY <3>1, <3>2, <1>2
    <3>3. CASE Len(c) # 1
      <4>1. EndOf(b, c[1]) <= b[c[Len(c)]].begin
        BY <3>3, <1>1 DEF IsList
      <4> QED BY <3>1, <4>1, <1>1, <1>2, <1>3
    <3> QED BY <3>2, <3>3
  <2>2. IsFiniteSet(Low) /\ Cardinality(Low) = IF 1 > e - 1 THEN 0 ELSE e - 1 - 1 + 1
    BY FS_Interval
  <2> QED BY <2>1, <2>2
<1>9. Cardinality(TakenOf(b)) = Cardinality(Low)
  <2> HIDE DEF f, Low
  <2>1. f \in Injection(TakenOf(b), Low) /\ f \in Surjection(TakenOf(b), Low)
    BY <1>7 DEF Bijection
  <2> QED BY <1>8, <2>1, FS_Injection
<1> QED
  BY <1>2, <1>8, <1>9
-----------------------------------------------------------------------------
(* Allocation. *)

\* The table and the memory into which allocBlock() puts the block, and the
\* entry behind which it puts it.
Prepared(b, m, n) ==
    IF Fits(b, n) = {} THEN Collected(b, m) ELSE [b |-> b, m |-> m]
Behind(b, m, n) ==
    LET p == Prepared(b, m, n)
    IN  IF Fits(b, n) = {} THEN Chain(p.b)[Len(Chain(p.b))] ELSE Best(p.b, n)

\* What is in the two memories is the same list with the same packets.
SameList(b, m, c, pb, pm) ==
    /\ IsTable(pb) /\ IsList(pb, c) /\ DOMAIN pm = Addresses
    /\ \A h \in Blocks : pb[h].size = b[h].size
    /\ \A h \in Blocks : PacketOf(pb, pm, h) = PacketOf(b, m, h)

\* The place behind c[j] is large enough, or the last of blocks that are packed.
PlaceBehind(b, c, n, j) ==
    \/ HasGap(b, c[j], n)
    \/ j = Len(c) /\ Packed(b, c)

\* Whether the blocks were moved or not, they are the same list with the same
\* packets; and the place that is left is too small only behind the last of
\* blocks that are packed.
LEMMA PreparedFacts ==
    ASSUME NEW b, NEW m, NEW c, IsTable(b), IsList(b, c), DOMAIN m = Addresses,
           NEW n \in Nat, NEW pb, NEW pm,
           pb = Prepared(b, m, n).b, pm = Prepared(b, m, n).m
    PROVE  /\ SameList(b, m, c, pb, pm)
           /\ \E j \in 1..Len(c) : Behind(b, m, n) = c[j] /\ PlaceBehind(pb, c, n, j)
<1>1. CASE Fits(b, n) = {}
  <2>0. PICK p : p = Collected(b, m)
    OBVIOUS
  <2>1. pb = p.b /\ pm = p.m
    BY <2>0, <1>1 DEF Prepared
  <2>2. CollectedTo(b, m, c, Len(c), p)
    BY <2>0, CollectedIs
  <2>3. IsTable(pb) /\ IsList(pb, c) /\ DOMAIN pm = Addresses
    BY <2>1, <2>2 DEF CollectedTo
  <2>4. \A h \in Blocks : pb[h].size = b[h].size
    BY <2>1, <2>2 DEF CollectedTo, Nodes
  <2>5. \A h \in Blocks : PacketOf(pb, pm, h) = PacketOf(b, m, h)
    BY <2>1, <2>2, CollectedPackets
  <2>6. Behind(b, m, n) = c[Len(c)]
    <3>1. Chain(pb) = c
      BY <2>3, ChainIs
    <3>2. Behind(b, m, n) = Chain(pb)[Len(Chain(pb))]
      BY <1>1, Zenon DEF Behind
    <3> QED BY <3>1, <3>2
  <2>7. \A i \in 2..Len(c) : pb[c[i]].begin = EndOf(pb, c[i - 1])
    <3>1. \A i \in 2..Len(c) : i <= Len(c)
      BY ListFacts
    <3> QED BY <2>1, <2>2, <3>1 DEF CollectedTo
  <2>8. Len(c) \in 1..Len(c)
    BY ListFacts
  <2>9. SameList(b, m, c, pb, pm)
    BY <2>3, <2>4, <2>5 DEF SameList
  <2>10. PlaceBehind(pb, c, n, Len(c))
    BY <2>7 DEF PlaceBehind, Packed
  <2> QED BY <2>6, <2>8, <2>9, <2>10
<1>2. CASE Fits(b, n) # {}
  <2>1. Prepared(b, m, n) = [b |-> b, m |-> m]
    BY <1>2 DEF Prepared
  <2>2. pb = b /\ pm = m
    BY <2>1
  <2>3. Behind(b, m, n) = Best(b, n)
    <3>1. Behind(b, m, n) = Best(pb, n)
      BY <1>2, Zenon DEF Behind
    <3> QED BY <2>2, <3>1
  <2>4. \E j \in 1..Len(c) : Best(b, n) = c[j] /\ GapAfter(b, c[j]) >= n
    BY <1>2, BestIs
  <2>5. SameList(b, m, c, pb, pm)
    BY <2>2 DEF SameList
  <2>6. \E j \in 1..Len(c) : Best(b, n) = c[j] /\ PlaceBehind(pb, c, n, j)
    BY <2>2, <2>4 DEF PlaceBehind, HasGap
  <2> QED BY <2>3, <2>5, <2>6
<1> QED BY <1>1, <1>2

\* What the handle h holds after the block new was filled.
PacketWith(b, m, h, new, n, byte) ==
    IF h = new THEN [j \in 1..n |-> <<byte, j>>] ELSE PacketOf(b, m, h)

\* The block that is new holds what was written, the others what they held.
LEMMA FilledPackets ==
    ASSUME NEW b, NEW c, IsTable(b), IsList(b, c), NEW m,
           NEW new \in Blocks, NEW at \in Nat, NEW n \in Nat, n > 0, NEW byte,
           b[new].begin = at, b[new].size = n,
           NEW b1, NEW h \in Blocks,
           h # new => b1[h].begin = b[h].begin /\ b1[h].size = b[h].size
    PROVE  PacketOf(b, Fill(m, at, n, byte), h) = PacketWith(b1, m, h, new, n, byte)
<1> DEFINE f == Fill(m, at, n, byte)
<1>0. \A a \in Addresses : f[a] = IF a \in at..(at + n - 1) THEN <<byte, a - at + 1>> ELSE m[a]
  BY DEF Fill
<1>1. h \in Nodes /\ b[h].begin \in Nat /\ b[h].size \in Nat
  BY ListFacts DEF Nodes
<1> HIDE DEF f
<1>2. ASSUME NEW j \in 1..b[h].size
      PROVE  /\ b[h].begin + j - 1 \in Addresses /\ j \in Nat
             /\ b[h].begin + j - 1 < EndOf(b, h)
             /\ b[h].begin <= b[h].begin + j - 1 /\ b[h].size > 0
  <2>1. b[h].size > 0 /\ j - 1 \in Nat /\ j - 1 < b[h].size
    BY <1>1
  <2>2. b[h].begin + (j - 1) \in Addresses /\ b[h].begin + (j - 1) < EndOf(b, h)
    BY <2>1, BlockFacts
  <2>3. b[h].begin + (j - 1) = b[h].begin + j - 1
    BY <1>1
  <2> QED BY <2>1, <2>2, <2>3, <1>1
<1>3. CASE h = new
  <2>1. \A j \in 1..n : f[at + j - 1] = <<byte, j>>
    <3> TAKE j \in 1..n
    <3>1. at + j - 1 \in Addresses
      BY <1>2, <1>3
    <3>2. PICK a \in Addresses : a = at + j - 1
      BY <3>1
    <3>3. a \in at..(at + n - 1) /\ a - at + 1 = j
      BY <3>2
    <3>4. f[a] = <<byte, a - at + 1>>
      BY <1>0, <3>3
    <3> QED BY <3>2, <3>3, <3>4
  <2>2. PacketOf(b, f, h) = [j \in 1..n |-> f[at + j - 1]]
    BY <1>3 DEF PacketOf
  <2>3. PacketOf(b, f, h) = [j \in 1..n |-> <<byte, j>>]
    BY <2>1, <2>2
  <2> QED BY <2>3, <1>3 DEF f, PacketWith
<1>4. CASE h # new
  <2>1. \A j \in 1..b[h].size : f[b[h].begin + j - 1] = m[b[h].begin + j - 1]
    <3> TAKE j \in 1..b[h].size
    <3>1. EndOf(b, h) <= b[new].begin \/ EndOf(b, new) <= b[h].begin
      BY <1>2, <1>4, Apart
    <3>2. EndOf(b, new) = at + n /\ EndOf(b, h) \in Nat
      BY <1>1 DEF EndOf
    <3>3. ~(b[h].begin + j - 1 \in at..(at + n - 1))
      BY <1>1, <1>2, <3>1, <3>2
    <3> QED BY <1>0, <1>2, <3>3
  <2>2. PacketOf(b, f, h) = [j \in 1..b[h].size |-> f[b[h].begin + j - 1]]
    BY DEF PacketOf
  <2>3. PacketOf(b1, m, h) = [j \in 1..b[h].size |-> m[b[h].begin + j - 1]]
    BY <1>4 DEF PacketOf
  <2>4. PacketOf(b, f, h) = PacketOf(b1, m, h)
    BY <2>1, <2>2, <2>3
  <2> QED BY <2>4, <1>4 DEF f, PacketWith
<1> QED BY <1>3, <1>4

-----------------------------------------------------------------------------
(* What PacketPool sees. *)

\* The handles, the bytes and the free entries of PacketPool are those of the table.
LEMMA PoolSees ==
    ASSUME IsTable(blocks)
    PROVE  /\ \A h \in Blocks : Packet(h) = PacketOf(blocks, memory, h)
           /\ Pool!Taken = TakenOf(blocks)
           /\ Pool!Unused = Entries(blocks)
<1>1. \A h \in Blocks : Packet(h) = PacketOf(blocks, memory, h)
  BY DEF Packet, PacketOf
<1>2. \A h \in Blocks : blocks[h].size \in Nat /\ DOMAIN Packet(h) = 1..blocks[h].size
  BY DEF Packet, IsTable
<1>3. Pool!Taken = TakenOf(blocks)
  BY <1>2 DEF Pool!Taken, TakenOf
<1>4. \A h \in Blocks : Packet(h) = <<>> <=> blocks[h].size = 0
  <2> TAKE h \in Blocks
  <2>1. CASE blocks[h].size = 0
    <3>1. Packet(h) = [j \in 1..0 |-> memory[blocks[h].begin + j - 1]]
      BY <2>1 DEF Packet
    <3>2. [j \in 1..0 |-> memory[blocks[h].begin + j - 1]] = <<>>
      OBVIOUS
    <3> QED BY <2>1, <3>1, <3>2
  <2>2. CASE blocks[h].size # 0
    <3>1. 1 \in DOMAIN Packet(h)
      BY <1>2, <2>2
    <3> QED BY <2>2, <3>1
  <2> QED BY <2>1, <2>2
<1>5. Pool!Unused = Entries(blocks)
  BY <1>4 DEF Pool!Unused, Entries
<1> QED BY <1>1, <1>3, <1>5

\* The packets of two tables with the same sizes take the same bytes.
LEMMA SameSizes ==
    ASSUME NEW b, NEW b1, \A h \in Blocks : b1[h].size = b[h].size
    PROVE  TakenOf(b1) = TakenOf(b) /\ Entries(b1) = Entries(b)
BY DEF TakenOf, Entries

\* A step keeps MemInv when the table it leaves is a list, whichever it is.
LEMMA InvNext ==
    ASSUME IsTable(blocks'), \E d : IsList(blocks', d),
           DOMAIN memory' = Addresses,
           answer' \in [size : 0..MEMPOOL_SIZE, handle : Blocks \cup {NOBLOCK}]
    PROVE  MemInv'
<1>1. PICK b : b = blocks'
  OBVIOUS
<1>2. PICK d : IsList(b, d)
  BY <1>1
<1>3. IsList(b, Chain(b))
  BY <1>1, <1>2, ChainIs
<1>4. IsList(blocks', Chain(blocks'))
  BY <1>1, <1>3
<1> QED BY <1>4 DEF MemInv

\* The block h was put into the pool and filled.
Holds(b, m, h, n, byte, b2, m2) ==
    /\ IsTable(b2) /\ DOMAIN m2 = Addresses
    /\ \E d : IsList(b2, d)
    /\ \A g \in Blocks : PacketOf(b2, m2, g) = PacketWith(b, m, g, h, n, byte)
    /\ Cardinality(TakenOf(b)) + n <= MEMPOOL_SIZE

\* A block put into a place that is large enough: the table stays one list,
\* the packet is in it, the others hold what they held, and there was room.
LEMMA Placed ==
    ASSUME NEW b, NEW m, NEW c, IsTable(b), IsList(b, c),
           NEW j \in 1..Len(c), NEW n \in Nat, HasGap(b, c[j], n),
           NEW new \in Blocks, IsNew(b, n, new), NEW byte,
           NEW b2, NEW m2, b2 = Inserted(b, c[j], n, new),
           m2 = Fill(m, EndOf(b, c[j]), n, byte)
    PROVE  Holds(b, m, new, n, byte, b2, m2)
<1>1. /\ IsTable(b2) /\ \E d : IsList(b2, d)
      /\ \A h \in Nodes : h # new => /\ b2[h].begin = b[h].begin
                                     /\ b2[h].size = b[h].size
      /\ b2[new].begin = EndOf(b, c[j]) /\ b2[new].size = n
  BY InsertKeeps
<1>2. PICK d : IsList(b2, d)
  BY <1>1
<1>3. PICK at \in Nat : at = EndOf(b, c[j])
  BY GapFacts
<1>4. m2 = Fill(m, at, n, byte) /\ b2[new].begin = at /\ b2[new].size = n
  BY <1>1, <1>3
<1>5. ASSUME NEW h \in Blocks
      PROVE  PacketOf(b2, m2, h) = PacketWith(b, m, h, new, n, byte)
  <2>1. h # new => b[h].begin = b2[h].begin /\ b[h].size = b2[h].size
    BY <1>1 DEF Nodes
  <2>2. IsTable(b2)
    BY <1>1
  <2>2a. n > 0
    BY DEF IsNew
  <2>3. PacketOf(b2, Fill(m, at, n, byte), h) = PacketWith(b, m, h, new, n, byte)
    BY <1>2, <1>4, <2>1, <2>2, <2>2a, FilledPackets
  <2> QED BY <1>4, <2>3
<1>6. DOMAIN m2 = Addresses
  BY DEF Fill
<1>7. Cardinality(TakenOf(b)) + n <= MEMPOOL_SIZE
  BY RoomBesidesGap
<1> QED BY <1>1, <1>5, <1>6, <1>7 DEF Holds

\* There is no room when the place behind the last of packed blocks is too small.
LEMMA NotPlaced ==
    ASSUME NEW b, NEW c, IsTable(b), IsList(b, c), NEW j \in 1..Len(c), NEW n \in Nat,
           PlaceBehind(b, c, n, j), ~HasGap(b, c[j], n)
    PROVE  ~(Cardinality(TakenOf(b)) + n <= MEMPOOL_SIZE)
<1>1. j = Len(c) /\ Packed(b, c)
  BY DEF PlaceBehind
<1>2. Cardinality(TakenOf(b)) = EndOf(b, c[Len(c)]) - 1
  BY <1>1, RoomWhenPacked
<1>3. PICK e \in Nat : e = EndOf(b, c[j])
  BY GapFacts
<1>4. GapAfter(b, c[j]) = (IF j = Len(c) THEN 1 + MEMPOOL_SIZE ELSE b[c[j + 1]].begin) - e
  BY <1>3, GapFacts
<1>5. GapAfter(b, c[j]) = 1 + MEMPOOL_SIZE - e
  <2>1. (IF j = Len(c) THEN 1 + MEMPOOL_SIZE ELSE b[c[j + 1]].begin) = 1 + MEMPOOL_SIZE
    BY <1>1
  <2> QED BY <1>1, <1>4, <2>1, MemoryAssumption
<1>6. ~(1 + MEMPOOL_SIZE - e >= n)
  BY <1>5 DEF HasGap
<1> QED BY <1>1, <1>2, <1>3, <1>6, MemoryAssumption

\* PacketPool counts as this module does.
LEMMA PoolCounts ==
    \A n : Pool!HasRoom(n) <=> /\ Pool!Unused # {}
                               /\ Cardinality(Pool!Taken) + n <= MEMPOOL_SIZE
<1>1. \A S : Pool!Cardinality(S) = Cardinality(S)
  BY DEF Pool!Cardinality, Cardinality, Pool!IsFiniteSet, IsFiniteSet
<1> QED BY <1>1 DEF Pool!HasRoom

\* allocBlock() keeps the list, and is Take or Refuse: it refuses only when the
\* table is full or there is no room, however scattered.
LEMMA AllocStep ==
    ASSUME MemInv, NEW n \in 0..MEMPOOL_SIZE, NEW byte, AllocBlock(n, byte)
    PROVE  /\ MemInv'
           /\ Pool!Take(n, byte) \/ Pool!Refuse(n)
<1>0. n \in Nat /\ MEMPOOL_SIZE \in Nat
  BY MemoryAssumption
<1>1. PICK b, m, b2, m2 : b = blocks /\ m = memory /\ b2 = blocks' /\ m2 = memory'
  OBVIOUS
<1>3. PICK c : c = Chain(b)
  OBVIOUS
<1>4. PICK pb, pm : pb = Prepared(b, m, n).b /\ pm = Prepared(b, m, n).m
  OBVIOUS
<1>7. IsTable(b) /\ IsList(b, c) /\ DOMAIN m = Addresses
  BY <1>1, <1>3 DEF MemInv
<1>8. /\ SameList(b, m, c, pb, pm)
      /\ \E j \in 1..Len(c) : Behind(b, m, n) = c[j] /\ PlaceBehind(pb, c, n, j)
  BY <1>0, <1>4, <1>7, PreparedFacts
<1>9. PICK j \in 1..Len(c) : Behind(b, m, n) = c[j] /\ PlaceBehind(pb, c, n, j)
  BY <1>8
<1>9a. /\ IsTable(pb) /\ IsList(pb, c) /\ DOMAIN pm = Addresses
       /\ \A h \in Blocks : pb[h].size = b[h].size
       /\ \A h \in Blocks : PacketOf(pb, pm, h) = PacketOf(b, m, h)
  BY <1>8 DEF SameList
<1>10. TakenOf(pb) = TakenOf(b) /\ Entries(pb) = Entries(b)
  BY <1>9a, SameSizes
<1>11. /\ \A h \in Blocks : Packet(h) = PacketOf(b, m, h)
       /\ Pool!Taken = TakenOf(pb)
       /\ Pool!Unused = Entries(pb)
  BY <1>1, <1>7, <1>10, PoolSees
<1>11a. \A h \in Blocks : Packet(h)' = PacketOf(b2, m2, h)
  BY <1>1 DEF Packet, PacketOf
<1> DEFINE Fit == n > 0 /\ GapAfter(pb, c[j]) >= n /\ Entries(pb) # {}
<1>12. IF Fit
       THEN /\ answer' = [size |-> n, handle |-> Entry(pb)]
            /\ b2 = Inserted(pb, c[j], n, Entry(pb))
            /\ m2 = Fill(pm, EndOf(pb, c[j]), n, byte)
       ELSE /\ answer' = [size |-> n, handle |-> NOBLOCK]
            /\ b2 = IF n = 0 THEN b ELSE pb
            /\ m2 = IF n = 0 THEN m ELSE pm
  <2>0. PICK p : p = Prepared(b, m, n)
    OBVIOUS
  <2>1. p = IF Fits(blocks, n) = {} THEN Collected(blocks, memory)
            ELSE [b |-> blocks, m |-> memory]
    BY <2>0, <1>1, Zenon DEF Prepared
  <2>2. pb = p.b /\ pm = p.m
    BY <2>0, <1>4, Zenon
  <2>3. c[j] = IF Fits(blocks, n) = {} THEN Chain(p.b)[Len(Chain(p.b))] ELSE Best(p.b, n)
    BY <2>0, <1>1, <1>9, Zenon DEF Behind
  <2> QED BY <2>1, <2>2, <2>3, <1>1, Zenon DEF AllocBlock, Inserted
<1>13. CASE Fit
  <2>0. n > 0 /\ GapAfter(pb, c[j]) >= n /\ Entries(pb) # {}
    BY <1>13
  <2>1. PICK g \in Blocks : g = Entry(pb) /\ pb[g].size = 0
    BY <1>9a, <2>0, EntryIs
  <2>2. /\ b2 = Inserted(pb, c[j], n, g)
        /\ m2 = Fill(pm, EndOf(pb, c[j]), n, byte)
        /\ answer' = [size |-> n, handle |-> g]
    BY <1>12, <1>13, <2>1
  <2> HIDE DEF Fit
  <2>4. /\ IsTable(b2) /\ (\E d : IsList(b2, d)) /\ DOMAIN m2 = Addresses
        /\ \A h \in Blocks : PacketOf(b2, m2, h) = PacketWith(pb, pm, h, g, n, byte)
        /\ Cardinality(TakenOf(pb)) + n <= MEMPOOL_SIZE
    <3>0. HasGap(pb, c[j], n) /\ IsNew(pb, n, g)
      BY <2>0, <2>1 DEF HasGap, IsNew
    <3>1. Holds(pb, pm, g, n, byte, b2, m2)
      BY <1>0, <1>9a, <2>1, <2>2, <3>0, Placed
    <3> QED BY <3>1 DEF Holds
  <2>5. MemInv'
    <3>2. answer' \in [size : 0..MEMPOOL_SIZE, handle : Blocks \cup {NOBLOCK}]
      BY <2>2
    <3> QED BY <1>1, <2>4, <3>2, InvNext
  <2>9. [h \in Blocks |-> Packet(h)]' =
            [[h \in Blocks |-> Packet(h)] EXCEPT ![g] = Pool!Filled(n, byte)]
    <3>1. \A h \in Blocks : Packet(h)' = IF h = g THEN Pool!Filled(n, byte) ELSE Packet(h)
      BY <1>9a, <1>11, <1>11a, <2>4 DEF Pool!Filled, PacketWith
    <3> QED BY <2>1, <3>1
  <2>10. g \in Pool!Unused /\ Pool!HasRoom(n)
    <3>1. g \in Pool!Unused
      BY <2>1, <1>11 DEF Entries
    <3> QED BY <3>1, <2>4, <1>11, PoolCounts
  <2>11. Pool!Take(n, byte)
    BY <2>0, <2>2, <2>9, <2>10 DEF Pool!Take
  <2> QED BY <2>5, <2>11
<1>14. CASE ~Fit
  <2>1. /\ answer' = [size |-> n, handle |-> NOBLOCK]
        /\ b2 = IF n = 0 THEN b ELSE pb
        /\ m2 = IF n = 0 THEN m ELSE pm
    BY <1>12, <1>14
  <2>2. /\ IsTable(b2) /\ IsList(b2, c) /\ DOMAIN m2 = Addresses
        /\ \A h \in Blocks : PacketOf(b2, m2, h) = PacketOf(b, m, h)
    BY <2>1, <1>7, <1>9a
  <2>3. MemInv'
    <3>1. answer' \in [size : 0..MEMPOOL_SIZE, handle : Blocks \cup {NOBLOCK}]
      BY <2>1
    <3>2. \E d : IsList(b2, d)
      BY <2>2
    <3> QED BY <1>1, <2>2, <3>1, <3>2, InvNext
  <2>4. [h \in Blocks |-> Packet(h)]' = [h \in Blocks |-> Packet(h)]
    <3>1. \A h \in Blocks : Packet(h)' = Packet(h)
      BY <1>11, <1>11a, <2>2
    <3> QED BY <3>1
  <2>5. n = 0 \/ ~Pool!HasRoom(n)
    <3>1. CASE Entries(pb) = {}
      BY <3>1, <1>11, PoolCounts
    <3>2. CASE n > 0 /\ Entries(pb) # {}
      <4>1. ~HasGap(pb, c[j], n)
        BY <1>14, <3>2 DEF HasGap
      <4> HIDE DEF Fit
      <4>2. ~(Cardinality(TakenOf(pb)) + n <= MEMPOOL_SIZE)
        BY <1>0, <1>9, <1>9a, <4>1, NotPlaced
      <4> QED BY <4>2, <1>11, PoolCounts
    <3> QED BY <1>0, <3>1, <3>2
  <2>6. Pool!Refuse(n)
    BY <2>1, <2>4, <2>5 DEF Pool!Refuse, Pool!NOBLOCK, NOBLOCK
  <2> QED BY <2>3, <2>6
<1> QED BY <1>13, <1>14

-----------------------------------------------------------------------------
(* The other calls. *)

\* A call that changes nothing.
LEMMA Stutter ==
    ASSUME MemInv, UNCHANGED memVars
    PROVE  MemInv' /\ UNCHANGED Pool!poolVars
<1>1. MemInv'
  <2>1. PICK b : b = blocks
    OBVIOUS
  <2>2. b = blocks' /\ memory' = memory /\ answer' = answer
    BY <2>1 DEF memVars
  <2>3. IsTable(b) /\ \E d : IsList(b, d)
    BY <2>1 DEF MemInv
  <2>4. IsTable(blocks') /\ \E d : IsList(blocks', d)
    BY <2>2, <2>3
  <2>5. DOMAIN memory' = Addresses
        /\ answer' \in [size : 0..MEMPOOL_SIZE, handle : Blocks \cup {NOBLOCK}]
    BY <2>2 DEF MemInv
  <2> QED BY <2>4, <2>5, InvNext
<1>2. [h \in Blocks |-> Packet(h)]' = [h \in Blocks |-> Packet(h)]
  BY DEF memVars, Packet
<1> QED BY <1>1, <1>2 DEF memVars, Pool!poolVars

\* What freeBlock() does to the table.
Unlinked(b, h) ==
    LET x == CHOOSE y \in DOMAIN b : b[y].nextblock = h
    IN  [b EXCEPT ![x].nextblock = b[h].nextblock,
                  ![h].size = 0, ![h].nextblock = NOBLOCK]

\* The table of which one block is unlinked, entry by entry.
LEMMA UnlinkedIs ==
    ASSUME NEW b \in [Nodes -> Records], NEW h \in Nodes, NEW x \in Nodes, x # h,
           x = (CHOOSE y \in DOMAIN b : b[y].nextblock = h),
           NEW b2, b2 = Unlinked(b, h)
    PROVE  /\ b2 \in [Nodes -> Records]
           /\ \A g \in Nodes : g # h => b2[g].begin = b[g].begin /\ b2[g].size = b[g].size
           /\ \A g \in Nodes : g # h /\ g # x => b2[g].nextblock = b[g].nextblock
           /\ b2[x].nextblock = b[h].nextblock
           /\ b2[h].size = 0 /\ b2[h].nextblock = NOBLOCK
<1>1. b2 = [b EXCEPT ![x].nextblock = b[h].nextblock,
                     ![h].size = 0, ![h].nextblock = NOBLOCK]
  BY Zenon DEF Unlinked
<1>2. PICK v : v = b[h].nextblock
  OBVIOUS
<1>3. v \in Nodes /\ NOBLOCK \in Nodes /\ 0 \in Nat
  <2>1. b[h] \in Records
    OBVIOUS
  <2> QED BY <2>1, <1>2 DEF Records, Nodes, NOBLOCK, POOLSTART
<1>4. PICK b1 : b1 = [b EXCEPT ![x].nextblock = v]
  OBVIOUS
<1>5. PICK b1a : b1a = [b1 EXCEPT ![h].size = 0]
  OBVIOUS
<1>6. b2 = [b1a EXCEPT ![h].nextblock = NOBLOCK]
  BY <1>1, <1>2, <1>4, <1>5
<1>7. /\ b1 \in [Nodes -> Records] /\ \A g \in Nodes : g # x => b1[g] = b[g]
      /\ b1[x].begin = b[x].begin /\ b1[x].size = b[x].size /\ b1[x].nextblock = v
  BY <1>3, <1>4 DEF Records
<1>8. /\ b1a \in [Nodes -> Records] /\ \A g \in Nodes : g # h => b1a[g] = b1[g]
      /\ b1a[h].size = 0
  BY <1>3, <1>5, <1>7 DEF Records
<1>9. /\ b2 \in [Nodes -> Records] /\ \A g \in Nodes : g # h => b2[g] = b1a[g]
      /\ b2[h].size = b1a[h].size /\ b2[h].nextblock = NOBLOCK
  BY <1>3, <1>6, <1>8 DEF Records
<1>10. ASSUME NEW g \in Nodes, g # h
       PROVE  /\ b2[g].begin = b[g].begin /\ b2[g].size = b[g].size
              /\ g # x => b2[g].nextblock = b[g].nextblock
              /\ g = x => b2[g].nextblock = v
  <2>1. b2[g] = b1[g]
    BY <1>8, <1>9, <1>10
  <2>2. CASE g = x
    BY <2>1, <2>2, <1>7
  <2>3. CASE g # x
    BY <2>1, <2>3, <1>7
  <2> QED BY <2>2, <2>3
<1>11. b2[h].size = 0
  BY <1>8, <1>9
<1> QED BY <1>2, <1>9, <1>10, <1>11

\* A block in the list is unlinked and empty after FreeBlock(), the rest of
\* the table is the same.
LEMMA FreeListed ==
    ASSUME NEW b, NEW c, IsTable(b), IsList(b, c), NEW h \in Blocks,
           NEW i \in 1..Len(c), c[i] = h, NEW b2, b2 = Unlinked(b, h)
    PROVE  /\ IsTable(b2) /\ \E d : IsList(b2, d)
           /\ \A g \in Nodes : g # h => b2[g].begin = b[g].begin /\ b2[g].size = b[g].size
           /\ b2[h].size = 0
<1>1. /\ DOMAIN b = Nodes
      /\ Len(c) \in Nat /\ Len(c) >= 1 /\ DOMAIN c = 1..Len(c)
      /\ \A j \in 1..Len(c) : c[j] \in Nodes
      /\ \A k, j \in 1..Len(c) : c[k] = c[j] => k = j
  BY ListFacts
<1>2. c[1] = POOLSTART /\ POOLSTART \notin Blocks
  BY MemoryAssumption DEF IsList, Blocks, POOLSTART
<1>3. i \in 2..Len(c)
  BY <1>1, <1>2
<1>4. PICK x : x = (CHOOSE y \in DOMAIN b : b[y].nextblock = h)
  OBVIOUS
<1>5. x = c[i - 1]
  BY <1>3, <1>4, BeforeIs
<1>6. i - 1 \in 1..Len(c) /\ i - 1 # i
  BY <1>1, <1>3
<1>7. x \in Nodes /\ h \in Nodes /\ x # h
  BY <1>1, <1>5, <1>6
<1>8. b \in [Nodes -> Records]
  <2>1. Nodes = Blocks \cup {NOBLOCK}
    BY DEF Nodes, POOLSTART, NOBLOCK
  <2> QED BY <2>1 DEF IsTable, Records, Nodes
<1>9. /\ b2 \in [Nodes -> Records]
      /\ \A g \in Nodes : g # h => b2[g].begin = b[g].begin /\ b2[g].size = b[g].size
      /\ \A g \in Nodes : g # h /\ g # x => b2[g].nextblock = b[g].nextblock
      /\ b2[x].nextblock = b[h].nextblock
      /\ b2[h].size = 0 /\ b2[h].nextblock = NOBLOCK
  BY <1>4, <1>7, <1>8, UnlinkedIs
<1>10. /\ b2 \in [Nodes -> Records]
       /\ \A g \in Nodes : g # c[i] => b2[g].begin = b[g].begin /\ b2[g].size = b[g].size
       /\ \A g \in Nodes : g # c[i] /\ g # c[i - 1] => b2[g].nextblock = b[g].nextblock
       /\ b2[c[i - 1]].nextblock = b[c[i]].nextblock
       /\ b2[c[i]].size = 0 /\ b2[c[i]].nextblock = NOBLOCK
  BY <1>5, <1>9
<1>11. IsTable(b2) /\ \E d : IsList(b2, d)
  BY <1>3, <1>10, RemoveKeeps
<1> QED BY <1>9, <1>11

\* freeBlock() keeps the list, and gives the packet back or does nothing.
LEMMA FreeStep ==
    ASSUME MemInv, NEW h \in Blocks \cup {NOBLOCK}, FreeBlock(h)
    PROVE  /\ MemInv'
           /\ UNCHANGED Pool!poolVars \/ \E g \in Blocks : Pool!Give(g)
<1>1. PICK b, m, b2 : b = blocks /\ m = memory /\ b2 = blocks'
  OBVIOUS
<1>2. PICK c : c = Chain(b)
  OBVIOUS
<1>3. IsTable(b) /\ IsList(b, c) /\ DOMAIN m = Addresses
  BY <1>1, <1>2 DEF MemInv
<1>4. memory' = m /\ answer' = answer
  BY <1>1 DEF FreeBlock
<1>5. CASE h # NOBLOCK /\ h \in {c[j] : j \in DOMAIN c}
  <2>1. h \in Blocks
    BY <1>5
  <2>2. PICK i \in 1..Len(c) : c[i] = h
    BY <1>3, <1>5, ListFacts
  <2>4. b2 = Unlinked(b, h)
    BY <1>1, <1>2, <1>5, Zenon DEF FreeBlock, Unlinked
  <2>5. /\ IsTable(b2) /\ \E d : IsList(b2, d)
        /\ \A g \in Nodes : g # h => b2[g].begin = b[g].begin /\ b2[g].size = b[g].size
        /\ b2[h].size = 0
    BY <1>3, <2>1, <2>2, <2>4, FreeListed
  <2>6. MemInv'
    <3>1. answer' \in [size : 0..MEMPOOL_SIZE, handle : Blocks \cup {NOBLOCK}]
      BY <1>4 DEF MemInv
    <3> QED BY <1>1, <1>3, <1>4, <2>5, <3>1, InvNext
  <2>7. \A g \in Blocks : Packet(g)' = IF g = h THEN <<>> ELSE Packet(g)
    <3> TAKE g \in Blocks
    <3>1. Packet(g)' = [j \in 1..b2[g].size |-> m[b2[g].begin + j - 1]]
      BY <1>1, <1>4 DEF Packet
    <3>2. Packet(g) = [j \in 1..b[g].size |-> m[b[g].begin + j - 1]]
      BY <1>1 DEF Packet
    <3>3. CASE g = h
      <4>1. Packet(g)' = [j \in 1..0 |-> m[b2[g].begin + j - 1]]
        BY <3>1, <3>3, <2>5
      <4>2. [j \in 1..0 |-> m[b2[g].begin + j - 1]] = <<>>
        OBVIOUS
      <4> QED BY <3>3, <4>1, <4>2
    <3>4. CASE g # h
      <4>1. b2[g].begin = b[g].begin /\ b2[g].size = b[g].size
        BY <3>4, <2>5 DEF Nodes
      <4> QED BY <3>1, <3>2, <3>4, <4>1
    <3> QED BY <3>3, <3>4
  <2>8. Pool!Give(h)
    BY <1>4, <2>1, <2>7 DEF Pool!Give
  <2> QED BY <2>1, <2>6, <2>8
<1>6. CASE ~(h # NOBLOCK /\ h \in {c[j] : j \in DOMAIN c})
  <2>1. UNCHANGED memVars
    BY <1>1, <1>2, <1>4, <1>6 DEF FreeBlock, memVars
  <2> QED BY <2>1, Stutter
<1> QED BY <1>5, <1>6

\* The block h keeps what it held from first to last.
CutIs(b, m, h, first, last, b2) ==
    /\ PacketOf(b2, m, h) = SubSeq(PacketOf(b, m, h), first, last)
    /\ Len(PacketOf(b, m, h)) = b[h].size
    /\ last \in 1..MEMPOOL_SIZE

\* What is left of a block that is cut from both ends is what was in it there.
LEMMA CutPacket ==
    ASSUME NEW b, NEW c, IsTable(b), IsList(b, c), NEW m, DOMAIN m = Addresses,
           NEW h \in Blocks, NEW first \in Nat, NEW last \in Nat,
           1 <= first, first <= last, last <= b[h].size,
           NEW b2, b2[h].begin = b[h].begin + first - 1, b2[h].size = last - first + 1
    PROVE  CutIs(b, m, h, first, last, b2)
<1> DEFINE s == PacketOf(b, m, h)
           V == {m[a] : a \in Addresses}
<1>1. /\ \E i \in 2..Len(c) : c[i] = h
      /\ h \in Nodes /\ b[h].begin \in Nat /\ b[h].size \in Nat
      /\ \A x \in Nat : x < b[h].size =>
             b[h].begin + x \in Addresses /\ b[h].begin + x < EndOf(b, h)
  <2>1. b[h].size \in Nat
    BY ListFacts DEF Nodes
  <2>2. b[h].size > 0
    BY <2>1
  <2> QED BY <2>2, BlockFacts
<1>2. s \in Seq(V) /\ Len(s) = b[h].size
  <2>1. ASSUME NEW j \in 1..b[h].size
        PROVE  m[b[h].begin + j - 1] \in V
    <3>1. b[h].begin + (j - 1) \in Addresses
      BY <1>1
    <3>2. b[h].begin + (j - 1) = b[h].begin + j - 1
      BY <1>1
    <3> QED BY <3>1, <3>2
  <2>2. s \in [1..b[h].size -> V]
    BY <2>1 DEF PacketOf
  <2>3. b[h].size \in Nat
    BY <1>1
  <2> HIDE DEF s, V
  <2> QED BY <2>2, <2>3
<1>3. \A j \in 1..b[h].size : s[j] = m[b[h].begin + j - 1]
  BY DEF PacketOf
<1>4. last - first + 1 \in Nat
  OBVIOUS
<1>5. \A j \in 1..(last - first + 1) :
          /\ j + first - 1 \in 1..b[h].size
          /\ b2[h].begin + j - 1 = b[h].begin + (j + first - 1) - 1
  <2> TAKE j \in 1..(last - first + 1)
  <2>1. PICK u, v \in Nat : u = b[h].begin /\ v = b[h].size
    BY <1>1
  <2>2. j + first - 1 \in 1..v /\ u + first - 1 + j - 1 = u + (j + first - 1) - 1
    BY <2>1
  <2> QED BY <2>1, <2>2
<1>6. PacketOf(b2, m, h) = [j \in 1..(last - first + 1) |-> s[j + first - 1]]
  <2>1. PacketOf(b2, m, h) = [j \in 1..(last - first + 1) |-> m[b2[h].begin + j - 1]]
    BY DEF PacketOf
  <2>2. \A j \in 1..(last - first + 1) : m[b2[h].begin + j - 1] = s[j + first - 1]
    BY <1>3, <1>5
  <2> HIDE DEF s
  <2> QED BY <2>1, <2>2
<1>7. SubSeq(s, first, last) = [j \in 1..(last - first + 1) |-> s[j + first - 1]]
  <2> HIDE DEF s, V
  <2> QED BY <1>2, <1>1
<1>8. last <= MEMPOOL_SIZE
  <2>1. last - 1 \in Nat /\ last - 1 < b[h].size
    BY <1>1
  <2>2. b[h].begin + (last - 1) \in Addresses
    BY <1>1, <2>1
  <2>3. b[h].begin >= 1
    BY <1>1, AddressFacts
  <2> QED BY <1>1, <2>2, <2>3, MemoryAssumption DEF Addresses
<1> QED BY <1>2, <1>6, <1>7, <1>8, MemoryAssumption DEF CutIs

\* Both ways to resize a block keep the list, and cut its packet.
LEMMA ResizeStep ==
    ASSUME MemInv, NEW h \in Blocks, NEW n \in 1..MEMPOOL_SIZE,
           ResizeBlock(h, n) \/ ResizeBlockTo(h, n)
    PROVE  MemInv' /\ \E i, j \in 1..MEMPOOL_SIZE : Pool!Cut(h, i, j)
<1>1. PICK b, m, b2 : b = blocks /\ m = memory /\ b2 = blocks'
  OBVIOUS
<1>2. PICK c : c = Chain(b)
  OBVIOUS
<1>3. IsTable(b) /\ IsList(b, c) /\ DOMAIN m = Addresses
  BY <1>1, <1>2 DEF MemInv
<1>4. memory' = m /\ answer' = answer
  BY <1>1 DEF ResizeBlock, ResizeBlockTo
<1>5. h \in Nodes /\ b[h].begin \in Nat /\ b[h].size \in Nat /\ n \in Nat /\ n >= 1
  BY <1>3, ListFacts, MemoryAssumption DEF Nodes
<1>6. b \in [Nodes -> Records]
  <2>1. Nodes = Blocks \cup {NOBLOCK}
    BY DEF Nodes, POOLSTART, NOBLOCK
  <2> QED BY <1>3, <2>1 DEF IsTable, Records, Nodes
<1>7. PICK first, last \in Nat :
          /\ 1 <= first /\ first <= last /\ last <= b[h].size
          /\ b2 \in [Nodes -> Records] /\ \A g \in Nodes : g # h => b2[g] = b[g]
          /\ b2[h].begin = b[h].begin + first - 1 /\ b2[h].size = last - first + 1
          /\ b2[h].nextblock = b[h].nextblock
  <2>1. PICK u, v \in Nat : u = b[h].begin /\ v = b[h].size
    BY <1>5
  <2>3. CASE ResizeBlock(h, n)
    <3>1. 0 < n /\ n < v
          /\ b2 = [b EXCEPT ![h].begin = u + n, ![h].size = v - n]
      BY <1>1, <2>1, <2>3 DEF ResizeBlock
    <3>2. PICK p, q \in Nat : p = u + n /\ q = v - n
      BY <3>1, <1>5
    <3>3. PICK b1 : b1 = [b EXCEPT ![h].begin = p]
      OBVIOUS
    <3>4. b2 = [b1 EXCEPT ![h].size = q]
      BY <3>1, <3>2, <3>3
    <3>5. /\ b1 \in [Nodes -> Records] /\ \A g \in Nodes : g # h => b1[g] = b[g]
          /\ b1[h].begin = p /\ b1[h].nextblock = b[h].nextblock
      BY <3>2, <3>3, <1>5, <1>6 DEF Records
    <3>6. /\ b2 \in [Nodes -> Records] /\ \A g \in Nodes : g # h => b2[g] = b1[g]
          /\ b2[h].begin = b1[h].begin /\ b2[h].size = q /\ b2[h].nextblock = b1[h].nextblock
      BY <3>2, <3>4, <3>5, <1>5 DEF Records
    <3>7. /\ b2 \in [Nodes -> Records] /\ \A g \in Nodes : g # h => b2[g] = b[g]
          /\ b2[h].begin = p /\ b2[h].size = q /\ b2[h].nextblock = b[h].nextblock
      BY <3>5, <3>6
    <3>8. n + 1 \in Nat /\ v \in Nat /\ 1 <= n + 1 /\ n + 1 <= v
          /\ u + (n + 1) - 1 = p /\ v - (n + 1) + 1 = q
      BY <2>1, <3>1, <3>2, <1>5
    <3> QED
      <4>1. /\ 1 <= n + 1 /\ n + 1 <= v /\ v <= b[h].size
            /\ b2[h].begin = b[h].begin + (n + 1) - 1 /\ b2[h].size = v - (n + 1) + 1
        BY <2>1, <3>7, <3>8
      <4> QED BY <3>7, <3>8, <4>1
  <2>4. CASE ResizeBlockTo(h, n)
    <3>1. n <= v /\ b2 = [b EXCEPT ![h].size = n]
      BY <1>1, <2>1, <2>4 DEF ResizeBlockTo
    <3>2. /\ b2 \in [Nodes -> Records] /\ \A g \in Nodes : g # h => b2[g] = b[g]
          /\ b2[h].begin = b[h].begin /\ b2[h].size = n /\ b2[h].nextblock = b[h].nextblock
      BY <3>1, <1>5, <1>6 DEF Records
    <3>3. 1 \in Nat /\ 1 <= 1 /\ 1 <= n /\ n <= b[h].size
          /\ b[h].begin + 1 - 1 = b[h].begin /\ n - 1 + 1 = n
      BY <2>1, <3>1, <1>5
    <3> QED
      <4>1. /\ 1 <= 1 /\ 1 <= n /\ n <= b[h].size
            /\ b2[h].begin = b[h].begin + 1 - 1 /\ b2[h].size = n - 1 + 1
        BY <3>2, <3>3
      <4> QED BY <3>2, <3>3, <4>1, <1>5
  <2> QED BY <2>3, <2>4
<1>10. /\ b2 \in [Nodes -> Records]
       /\ \A g \in Nodes : g # h => b2[g] = b[g]
  BY <1>7
<1>11. /\ b2[h].begin = b[h].begin + first - 1 /\ b2[h].size = last - first + 1
       /\ b2[h].nextblock = b[h].nextblock
  BY <1>7
<1>12. IsTable(b2) /\ IsList(b2, c)
  <2>1. b2[POOLSTART] = b[POOLSTART]
    <3>1. POOLSTART \in Nodes /\ POOLSTART # h
      BY MemoryAssumption DEF Nodes, POOLSTART, Blocks
    <3> QED BY <3>1, <1>10
  <2>2. ASSUME NEW g \in Nodes
        PROVE  /\ b2[g].nextblock = b[g].nextblock
               /\ b2[g].size > 0 <=> b[g].size > 0
               /\ b[g].begin <= b2[g].begin
               /\ EndOf(b2, g) <= EndOf(b, g)
    <3>1. b[g].begin \in Nat /\ b[g].size \in Nat
      BY <1>3, ListFacts
    <3>2. CASE g = h
      BY <3>1, <3>2, <1>5, <1>7, <1>11 DEF EndOf
    <3>3. CASE g # h
      <4>1. b2[g] = b[g]
        BY <3>3, <1>10
      <4> QED BY <3>1, <4>1 DEF EndOf
    <3> QED BY <3>2, <3>3
  <2> QED BY <2>1, <2>2, <1>3, <1>10, CutKeeps
<1>13. MemInv'
  <2>1. answer' \in [size : 0..MEMPOOL_SIZE, handle : Blocks \cup {NOBLOCK}]
    BY <1>4 DEF MemInv
  <2>2. \E d : IsList(b2, d)
    BY <1>12
  <2> QED BY <1>1, <1>3, <1>4, <1>12, <2>1, <2>2, InvNext
<1>14. /\ PacketOf(b2, m, h) = SubSeq(PacketOf(b, m, h), first, last)
       /\ Len(PacketOf(b, m, h)) = b[h].size
       /\ last \in 1..MEMPOOL_SIZE
  <2>1. CutIs(b, m, h, first, last, b2)
    BY <1>3, <1>7, <1>11, CutPacket
  <2> QED BY <2>1 DEF CutIs
<1>15. Packet(h) = PacketOf(b, m, h)
  BY <1>1 DEF Packet, PacketOf
<1>16. \A g \in Blocks : Packet(g)' =
           IF g = h THEN SubSeq(Packet(h), first, last) ELSE Packet(g)
  <2> TAKE g \in Blocks
  <2>1. Packet(g)' = PacketOf(b2, m, g)
    BY <1>1, <1>4 DEF Packet, PacketOf
  <2>2. CASE g = h
    BY <2>1, <2>2, <1>14, <1>15
  <2>3. CASE g # h
    <3>1. b2[g] = b[g]
      BY <2>3, <1>10 DEF Nodes
    <3>2. Packet(g) = PacketOf(b, m, g)
      BY <1>1 DEF Packet, PacketOf
    <3>3. PacketOf(b2, m, g) = PacketOf(b, m, g)
      BY <3>1 DEF PacketOf
    <3> QED BY <2>1, <2>3, <3>2, <3>3
  <2> QED BY <2>2, <2>3
<1>17. Pool!Cut(h, first, last)
  <2>1. last <= Len(Packet(h))
    BY <1>7, <1>14, <1>15
  <2> QED BY <2>1, <1>4, <1>7, <1>16 DEF Pool!Cut
<1>18. first \in 1..MEMPOOL_SIZE
  <2>1. last \in Nat /\ last <= MEMPOOL_SIZE
    BY <1>14, MemoryAssumption
  <2> QED BY <2>1, <1>7, MemoryAssumption
<1> QED BY <1>13, <1>14, <1>17, <1>18

-----------------------------------------------------------------------------
(* The theorems. *)

\* The pool begins with the list of POOLSTART alone, and no packet.
LEMMA MemInitInv ==
    ASSUME MemInit
    PROVE  MemInv /\ Pool!PoolInit
<1>1. PICK b : b = blocks
  OBVIOUS
<1>2. POOLSTART \notin Blocks /\ POOLSTART = NOBLOCK /\ MEMPOOL_SIZE \in Nat
  BY MemoryAssumption DEF Blocks, POOLSTART, NOBLOCK
<1>3. /\ DOMAIN b = Blocks \cup {POOLSTART}
      /\ b[POOLSTART] = [begin |-> 1, size |-> 0, nextblock |-> NOBLOCK]
      /\ \A h \in Blocks : b[h] = [begin |-> 0, size |-> 0, nextblock |-> NOBLOCK]
  BY <1>1, <1>2 DEF MemInit
<1>4. IsTable(b)
  <2>1. b = [h \in Blocks \cup {POOLSTART} |-> b[h]]
    BY <1>1 DEF MemInit
  <2>2. \A h \in Blocks \cup {POOLSTART} :
            b[h] \in [begin : Nat, size : Nat, nextblock : Blocks \cup {NOBLOCK}]
    BY <1>3
  <2>3. b \in [Blocks \cup {POOLSTART} ->
                  [begin : Nat, size : Nat, nextblock : Blocks \cup {NOBLOCK}]]
    BY <2>1, <2>2
  <2> QED BY <2>3, <1>3 DEF IsTable
<1> DEFINE c == <<POOLSTART>>
<1>5. IsList(b, c)
  <2>1. c \in Seq(DOMAIN b) /\ c # <<>> /\ c[1] = POOLSTART /\ Len(c) = 1 /\ DOMAIN c = {1}
    BY <1>3
  <2>2. {c[j] : j \in 2..Len(c)} = {} /\ {h \in Blocks : b[h].size > 0} = {}
    BY <2>1, <1>3
  <2>3. EndOf(b, POOLSTART) = 1
    BY <1>3 DEF EndOf
  <2> HIDE DEF c
  <2> QED BY <2>1, <2>2, <2>3, <1>2, <1>3 DEF IsList
<1>6. IsList(b, Chain(b))
  BY <1>4, <1>5, ChainIs
<1>7. MemInv
  <2>1. DOMAIN memory = Addresses
    BY DEF MemInit
  <2>2. answer \in [size : 0..MEMPOOL_SIZE, handle : Blocks \cup {NOBLOCK}]
    BY <1>2 DEF MemInit
  <2> QED BY <1>1, <1>4, <1>6, <2>1, <2>2 DEF MemInv
<1>8. Pool!PoolInit
  <2>1. \A h \in Blocks : Packet(h) = <<>>
    <3> TAKE h \in Blocks
    <3>1. Packet(h) = [j \in 1..0 |-> memory[blocks[h].begin + j - 1]]
      BY <1>1, <1>3 DEF Packet
    <3>2. [j \in 1..0 |-> memory[blocks[h].begin + j - 1]] = <<>>
      OBVIOUS
    <3> QED BY <3>1, <3>2
  <2> QED BY <2>1 DEF Pool!PoolInit, Pool!NOBLOCK, NOBLOCK, MemInit
<1> QED BY <1>7, <1>8

\* Every call keeps the invariant and is a step of PacketPool, or a stutter.
LEMMA MemStep ==
    ASSUME MemInv, [MemNext]_memVars
    PROVE  MemInv' /\ [Pool!PoolNext]_(Pool!poolVars)
<1>1. ASSUME NEW n \in 0..MEMPOOL_SIZE, NEW byte \in Bytes, AllocBlock(n, byte)
      PROVE  MemInv' /\ Pool!PoolNext
  BY <1>1, AllocStep DEF Pool!PoolNext
<1>2. ASSUME NEW h \in Blocks \cup {NOBLOCK}, FreeBlock(h)
      PROVE  MemInv' /\ [Pool!PoolNext]_(Pool!poolVars)
  BY <1>2, FreeStep DEF Pool!PoolNext
<1>3. ASSUME NEW h \in Blocks, NEW n \in 1..MEMPOOL_SIZE,
             ResizeBlock(h, n) \/ ResizeBlockTo(h, n)
      PROVE  MemInv' /\ Pool!PoolNext
  BY <1>3, ResizeStep DEF Pool!PoolNext
<1>4. CASE UNCHANGED memVars
  BY <1>4, Stutter
<1> QED BY <1>1, <1>2, <1>3, <1>4 DEF MemNext

\* MemInv always holds: allocBlock(), freeBlock() and resizeBlock() leave one
\* list over the table, whatever the order in which they are called.
THEOREM MemInvCorrect == MemSpec => []MemInv
<1>1. MemInit => MemInv
  BY MemInitInv
<1>2. MemInv /\ [MemNext]_memVars => MemInv'
  BY MemStep
<1> QED BY <1>1, <1>2, PTL DEF MemSpec

\* The pool implements PacketPool: packets keep their bytes through every
\* collection, and one is refused only when there is no room for it.
THEOREM ImplementsPoolCorrect == MemSpec => ImplementsPool
<1>1. MemInit => Pool!PoolInit
  BY MemInitInv
<1>2. MemInv /\ [MemNext]_memVars => [Pool!PoolNext]_(Pool!poolVars)
  BY MemStep
<1> QED BY <1>1, <1>2, MemInvCorrect, PTL DEF MemSpec, ImplementsPool, Pool!PoolSpec
=============================================================================
