----------------------------- MODULE ShardsProofs -----------------------------
(***************************************************************************)
(* Proofs about Shards, for any number of shards, registered in any order, *)
(* any keys, entries and weights, any threshold and any capacity of the    *)
(* statistics' channel.                                                    *)
(*                                                                         *)
(* The argument: of elements that differ, mergeSortByWeight makes the one  *)
(* sequence that is sorted by weight and, at equal weight, by the place an *)
(* element had.  So the balancer always has every shard once; and the      *)
(* figures of the evictor's pass, of the channel and of the logger come to *)
(* what was evicted, since a step moves a figure from one to the next.     *)
(***************************************************************************)
EXTENDS Shards, SumLemmas, SequenceTheorems, TLAPS

(***************************************************************************)
(* The sort.  Its functions are recursive: what they give for lists of one *)
(* length is had from the lists of less, by a smallest counterexample;     *)
(* that there are such functions at all is had in the same way.            *)
(***************************************************************************)
\* What a list holds; that it is sorted by an order, a set of pairs.
Elems(t)     == {t[x] : x \in 1..Len(t)}
Sorted(t, O) == \A x, y \in 1..Len(t) : x < y => <<t[x], t[y]>> \in O
Transitive(O) == \A u, v, z : <<u, v>> \in O /\ <<v, z>> \in O => <<u, z>> \in O

LEMMA ConsSorts ==
    ASSUME NEW T, NEW O, NEW t \in Seq(T), NEW e \in T, Sorted(t, O),
           \A v \in Elems(t) : <<e, v>> \in O
    PROVE  /\ <<e>> \o t \in Seq(T)
           /\ Sorted(<<e>> \o t, O)
           /\ Elems(<<e>> \o t) = {e} \cup Elems(t)
<1>. DEFINE c == <<e>> \o t
<1>1. <<e>> \in Seq(T) /\ Len(<<e>>) = 1
  OBVIOUS
<1>2. /\ c \in Seq(T) /\ Len(c) = 1 + Len(t) /\ Len(t) \in Nat
      /\ c[1] = e /\ \A x \in 2..(1 + Len(t)) : c[x] = t[x - 1]
  BY <1>1, ConcatProperties
<1>. HIDE DEF c
<1>3. Sorted(c, O)
  <2>. SUFFICES ASSUME NEW x \in 1..Len(c), NEW y \in 1..Len(c), x < y
                PROVE  <<c[x], c[y]>> \in O
    BY DEF Sorted
  <2>1. c[y] = t[y - 1] /\ y - 1 \in 1..Len(t)
    BY <1>2
  <2>2. CASE x = 1
    BY <1>2, <2>1, <2>2 DEF Elems
  <2>3. CASE x # 1
    <3>1. c[x] = t[x - 1] /\ x - 1 \in 1..Len(t)
      BY <1>2, <2>3
    <3>. QED BY <2>1, <3>1 DEF Sorted
  <2>. QED BY <2>2, <2>3
<1>4. Elems(c) = {e} \cup Elems(t)
  <2>1. ASSUME NEW v \in Elems(c) PROVE v \in {e} \cup Elems(t)
    <3>1. PICK x \in 1..Len(c) : v = c[x]
      BY DEF Elems
    <3>2. CASE x = 1
      BY <1>2, <3>1, <3>2
    <3>3. CASE x # 1
      <4>1. v = t[x - 1] /\ x - 1 \in 1..Len(t)
        BY <1>2, <3>1, <3>3
      <4>. QED BY <4>1 DEF Elems
    <3>. QED BY <3>2, <3>3
  <2>2. ASSUME NEW v \in Elems(t) PROVE v \in Elems(c)
    <3>1. PICK x \in 1..Len(t) : v = t[x]
      BY DEF Elems
    <3>2. v = c[x + 1] /\ x + 1 \in 1..Len(c)
      BY <1>2, <3>1
    <3>. QED BY <3>2 DEF Elems
  <2>3. e \in Elems(c)
    <3>1. 1 \in 1..Len(c) /\ c[1] = e
      BY <1>2
    <3>. QED BY <3>1 DEF Elems
  <2>. QED BY <2>1, <2>2, <2>3
<1>. QED BY <1>2, <1>3, <1>4 DEF c

\* What is left of a list behind its first i.
Left(t, i) == {t[x] : x \in (i + 1)..Len(t)}

LEMMA TailSorts ==
    ASSUME NEW T, NEW O, NEW t \in Seq(T), Sorted(t, O), NEW i \in 0..Len(t)
    PROVE  /\ SubSeq(t, i + 1, Len(t)) \in Seq(T)
           /\ Sorted(SubSeq(t, i + 1, Len(t)), O)
           /\ Elems(SubSeq(t, i + 1, Len(t))) = Left(t, i)
<1>. DEFINE r == SubSeq(t, i + 1, Len(t))
<1>1. Len(t) \in Nat /\ \A x \in (i + 1)..Len(t) : t[x] \in T
  BY LenProperties, ElementOfSeq
<1>2. /\ r \in Seq(T) /\ Len(r) = Len(t) - i
      /\ \A x \in 1..(Len(t) - i) : r[x] = t[i + x]
  <2>1. i + 1 \in Int /\ Len(t) \in Int /\ (i + 1 <= Len(t) \/ i = Len(t))
    BY <1>1
  <2>2. /\ r \in Seq(T)
        /\ Len(r) = IF i + 1 <= Len(t) THEN Len(t) - (i + 1) + 1 ELSE 0
        /\ \A x \in 1..(Len(t) - (i + 1) + 1) : r[x] = t[(i + 1) + x - 1]
    BY <1>1, <2>1, SubSeqProperties
  <2>. HIDE DEF r
  <2>. QED BY <1>1, <2>1, <2>2
<1>. HIDE DEF r
<1>3. Sorted(r, O)
  <2>. SUFFICES ASSUME NEW x \in 1..Len(r), NEW y \in 1..Len(r), x < y
                PROVE  <<r[x], r[y]>> \in O
    BY DEF Sorted
  <2>1. /\ r[x] = t[i + x] /\ r[y] = t[i + y]
        /\ i + x \in 1..Len(t) /\ i + y \in 1..Len(t) /\ i + x < i + y
    BY <1>1, <1>2
  <2>. QED BY <2>1 DEF Sorted
<1>4. Elems(r) = Left(t, i)
  <2>1. ASSUME NEW v \in Elems(r) PROVE v \in Left(t, i)
    <3>1. PICK x \in 1..Len(r) : v = r[x]
      BY DEF Elems
    <3>2. v = t[i + x] /\ i + x \in (i + 1)..Len(t)
      BY <1>1, <1>2, <3>1
    <3>. QED BY <3>2 DEF Left
  <2>2. ASSUME NEW v \in Left(t, i) PROVE v \in Elems(r)
    <3>1. PICK x \in (i + 1)..Len(t) : v = t[x]
      BY DEF Left
    <3>2. x - i \in 1..Len(r) /\ r[x - i] = t[i + (x - i)] /\ i + (x - i) = x
      BY <1>1, <1>2
    <3>. QED BY <3>1, <3>2 DEF Elems
  <2>. QED BY <2>1, <2>2
<1>. QED BY <1>2, <1>3, <1>4 DEF r

\* The merge of what is left, f being the merges of less.
MergeLeft(a, b, w, f, p) ==
    IF p[1] = Len(a) THEN SubSeq(b, p[2] + 1, Len(b))
    ELSE IF p[2] = Len(b) THEN SubSeq(a, p[1] + 1, Len(a))
    ELSE IF w[a[p[1] + 1]] > w[b[p[2] + 1]] THEN <<a[p[1] + 1]>> \o f[<<p[1] + 1, p[2]>>]
    ELSE <<b[p[2] + 1]>> \o f[<<p[1], p[2] + 1>>]

\* The places at which fewer than k elements are left.
Near(m, n, k) == {p \in (0..m) \X (0..n) : (m - p[1]) + (n - p[2]) < k}

LEMMA InNear ==
    ASSUME NEW m \in Nat, NEW n \in Nat, NEW k \in Int, NEW i \in 0..m, NEW j \in 0..n,
           (m - i) + (n - j) < k
    PROVE  <<i, j>> \in Near(m, n, k)
BY DEF Near

MergeTable(a, b, w, f) == f = [p \in (0..Len(a)) \X (0..Len(b)) |-> MergeLeft(a, b, w, f, p)]

LEMMA MergesExist ==
    ASSUME NEW a, NEW b, NEW w, Len(a) \in Nat, Len(b) \in Nat
    PROVE  \E f : MergeTable(a, b, w, f)
<1>. DEFINE m == Len(a)
            n == Len(b)
            Fits(g, k) == g = [p \in Near(m, n, k) |-> MergeLeft(a, b, w, g, p)]
            T == {k \in Nat : ~ \E g : Fits(g, k)}
<1>. HIDE DEF m, n
<1>0. m \in Nat /\ n \in Nat
  BY DEF m, n
<1>1. T = {}
  <2>1. SUFFICES ASSUME T # {} PROVE FALSE
    OBVIOUS
  <2>2. PICK k \in T : \A j \in T : k <= j
    <3>1. T \in SUBSET Nat
      OBVIOUS
    <3>. HIDE DEF T
    <3>. QED BY <2>1, <3>1, LeastNatural
  <2>3. CASE k = 0
    <3>1. Near(m, n, 0) = {}
      BY <1>0 DEF Near
    <3>2. \A g : [p \in {} |-> MergeLeft(a, b, w, g, p)] = [p \in {} |-> 0]
      OBVIOUS
    <3>3. Fits([p \in {} |-> 0], 0)
      BY <3>1, <3>2
    <3>. QED BY <2>2, <2>3, <3>3
  <2>4. CASE k # 0
    <3>1. k - 1 \in Nat /\ k - 1 \notin T
      BY <2>2, <2>4
    <3>2. PICK f : Fits(f, k - 1)
      BY <3>1
    <3>. DEFINE g == [p \in Near(m, n, k) |-> MergeLeft(a, b, w, f, p)]
    <3>3. ASSUME NEW p \in Near(m, n, k - 1) PROVE g[p] = f[p]
      <4>1. p \in Near(m, n, k)
        BY <3>1, <1>0 DEF Near
      <4>. QED BY <3>2, <4>1
    <3>4. ASSUME NEW p \in Near(m, n, k)
          PROVE  MergeLeft(a, b, w, f, p) = MergeLeft(a, b, w, g, p)
      <4>0. p[1] \in 0..m /\ p[2] \in 0..n /\ (m - p[1]) + (n - p[2]) < k
        BY DEF Near
      <4>1. p[1] # m => <<p[1] + 1, p[2]>> \in Near(m, n, k - 1)
        BY SMTT(30), <1>0, <3>1, <4>0 DEF Near
      <4>2. p[2] # n => <<p[1], p[2] + 1>> \in Near(m, n, k - 1)
        BY <1>0, <3>1, <4>0 DEF Near
      <4>3. /\ p[1] # m => f[<<p[1] + 1, p[2]>>] = g[<<p[1] + 1, p[2]>>]
            /\ p[2] # n => f[<<p[1], p[2] + 1>>] = g[<<p[1], p[2] + 1>>]
        BY <3>3, <4>1, <4>2
      <4>. QED BY <4>3, Zenon DEF MergeLeft, m, n
    <3>5. Fits(g, k)
      BY <3>4, Zenon
    <3>. QED BY <2>2, <3>5
  <2>. QED BY <2>3, <2>4
<1>2. PICK g : Fits(g, m + n + 1)
  BY <1>0, <1>1
<1>3. Near(m, n, m + n + 1) = (0..m) \X (0..n)
  BY <1>0 DEF Near
<1>. QED BY <1>2, <1>3 DEF m, n, MergeTable

\* What the merge gives at every place.
Merges(a, b, w) == CHOOSE f : MergeTable(a, b, w, f)

LEMMA MergeIs == ASSUME NEW a, NEW b, NEW w PROVE MergeByWeight(a, b, w) = Merges(a, b, w)[<<0, 0>>]
BY Zenon DEF MergeByWeight, Merges, MergeTable, MergeLeft

LEMMA MergesAt ==
    ASSUME NEW a, NEW b, NEW w, Len(a) \in Nat, Len(b) \in Nat,
           NEW p \in (0..Len(a)) \X (0..Len(b))
    PROVE  Merges(a, b, w)[p] = MergeLeft(a, b, w, Merges(a, b, w), p)
<1>1. MergeTable(a, b, w, Merges(a, b, w))
  BY MergesExist DEF Merges
<1>. QED BY <1>1 DEF MergeTable

\* Of an element of a and one of b the heavier is in front; of two equal ones, b's.
Crossed(a, b, w, O) ==
    \A u \in Elems(a), v \in Elems(b) :
       /\ w[u] > w[v] => <<u, v>> \in O
       /\ ~ (w[u] > w[v]) => <<v, u>> \in O

\* Two sorted lists, of whose elements the heavier is in front whichever list it is
\* from and else the second list's, become one.
LEMMA MergeSorts ==
    ASSUME NEW T, NEW O, Transitive(O), NEW a \in Seq(T), NEW b \in Seq(T), NEW w,
           Sorted(a, O), Sorted(b, O), Crossed(a, b, w, O)
    PROVE  /\ MergeByWeight(a, b, w) \in Seq(T)
           /\ Sorted(MergeByWeight(a, b, w), O)
           /\ Elems(MergeByWeight(a, b, w)) = Elems(a) \cup Elems(b)
<1>. DEFINE m == Len(a)
            n == Len(b)
            f == Merges(a, b, w)
            Good(p) == /\ f[p] \in Seq(T)
                       /\ Sorted(f[p], O)
                       /\ Elems(f[p]) = Left(a, p[1]) \cup Left(b, p[2])
            B == {k \in Nat : \E p \in Near(m, n, k) : ~ Good(p)}
<1>0. m \in Nat /\ n \in Nat /\ (\A x \in 1..m : a[x] \in T) /\ (\A x \in 1..n : b[x] \in T)
  BY LenProperties, ElementOfSeq
<1>1. ASSUME NEW i \in 0..m, NEW j \in 0..n
      PROVE  f[<<i, j>>] = IF i = m THEN SubSeq(b, j + 1, n)
                           ELSE IF j = n THEN SubSeq(a, i + 1, m)
                           ELSE IF w[a[i + 1]] > w[b[j + 1]] THEN <<a[i + 1]>> \o f[<<i + 1, j>>]
                           ELSE <<b[j + 1]>> \o f[<<i, j + 1>>]
  <2>. DEFINE p == <<i, j>>
  <2>1. p \in (0..m) \X (0..n) /\ p[1] = i /\ p[2] = j
    OBVIOUS
  <2>. HIDE DEF p
  <2>2. f[p] = MergeLeft(a, b, w, f, p)
    BY <1>0, <2>1, MergesAt
  <2>3. MergeLeft(a, b, w, f, p) = IF i = m THEN SubSeq(b, j + 1, n)
                           ELSE IF j = n THEN SubSeq(a, i + 1, m)
                           ELSE IF w[a[i + 1]] > w[b[j + 1]] THEN <<a[i + 1]>> \o f[<<i + 1, j>>]
                           ELSE <<b[j + 1]>> \o f[<<i, j + 1>>]
    BY <2>1, Zenon DEF MergeLeft
  <2>. QED BY <2>2, <2>3, Zenon DEF p
<1>. HIDE DEF f
<1>2. B = {}
  <2>1. SUFFICES ASSUME B # {} PROVE FALSE
    OBVIOUS
  <2>2. PICK k \in B : \A x \in B : k <= x
    <3>1. B \in SUBSET Nat
      OBVIOUS
    <3>. HIDE DEF B
    <3>. QED BY <2>1, <3>1, LeastNatural
  <2>3. PICK q \in Near(m, n, k) : ~ Good(q)
    BY <2>2
  <2>4. PICK i \in 0..m, j \in 0..n : q = <<i, j>> /\ (m - i) + (n - j) < k
    BY <2>3 DEF Near
  <2>5. k - 1 \in Nat /\ k - 1 \notin B
    <3>1. k \in Nat /\ k # 0
      BY <1>0, <2>2, <2>4
    <3>. HIDE DEF B
    <3>. QED BY <2>2, <3>1
  <2>6. CASE i = m
    <3>1. f[q] = SubSeq(b, j + 1, n)
      BY <1>1, <2>4, <2>6
    <3>2. Left(a, i) = {}
      BY <1>0, <2>6 DEF Left
    <3>3. /\ SubSeq(b, j + 1, n) \in Seq(T) /\ Sorted(SubSeq(b, j + 1, n), O)
          /\ Elems(SubSeq(b, j + 1, n)) = Left(b, j)
      BY TailSorts
    <3>. QED BY <2>3, <2>4, <3>1, <3>2, <3>3
  <2>7. CASE i # m /\ j = n
    <3>1. f[q] = SubSeq(a, i + 1, m)
      BY <1>1, <2>4, <2>7
    <3>2. Left(b, j) = {}
      BY <1>0, <2>7 DEF Left
    <3>3. /\ SubSeq(a, i + 1, m) \in Seq(T) /\ Sorted(SubSeq(a, i + 1, m), O)
          /\ Elems(SubSeq(a, i + 1, m)) = Left(a, i)
      BY TailSorts
    <3>. QED BY <2>3, <2>4, <3>1, <3>2, <3>3
  <2>8. CASE i # m /\ j # n
    <3>. DEFINE u == a[i + 1]
                v == b[j + 1]
    <3>1. /\ i + 1 \in 1..m /\ j + 1 \in 1..n /\ u \in T /\ v \in T
          /\ u \in Elems(a) /\ v \in Elems(b)
      BY <1>0, <2>8 DEF Elems
    <3>2. \A z \in Left(a, i + 1) : <<u, z>> \in O
      BY <1>0, <3>1 DEF Left, Sorted
    <3>3. \A z \in Left(b, j + 1) : <<v, z>> \in O
      BY <1>0, <3>1 DEF Left, Sorted
    <3>4. Left(a, i) = {u} \cup Left(a, i + 1)
      <4>1. (i + 1)..m = {i + 1} \cup (((i + 1) + 1)..m)
        BY <1>0, <2>8
      <4>. QED BY <4>1 DEF Left
    <3>5. Left(b, j) = {v} \cup Left(b, j + 1)
      <4>1. (j + 1)..n = {j + 1} \cup (((j + 1) + 1)..n)
        BY <1>0, <2>8
      <4>. QED BY <4>1 DEF Left
    <3>. HIDE DEF u, v
    <3>6. CASE w[u] > w[v]
      <4>. DEFINE r == <<i + 1, j>>
      <4>1. f[q] = <<u>> \o f[r]
        BY <1>1, <2>4, <2>8, <3>6 DEF u, v
      <4>2. Good(r)
        <5>0. i + 1 \in 0..m /\ j + 1 \in 0..n /\ (m - i) + (n - j) - 1 < k - 1
          BY <1>0, <2>4, <2>5, <2>8
        <5>1. r \in Near(m, n, k - 1)
          BY SMTT(30), <1>0, <5>0, InNear
        <5>. HIDE DEF r, Good
        <5>. QED BY <2>5, <5>1
      <4>3. r[1] = i + 1 /\ r[2] = j
        OBVIOUS
      <4>. HIDE DEF r
      <4>4. \A z \in Elems(f[r]) : <<u, z>> \in O
        <5>1. <<u, v>> \in O
          BY <3>1, <3>6 DEF Crossed
        <5>. QED BY <3>2, <3>3, <3>5, <4>2, <4>3, <5>1 DEF Transitive
      <4>5. /\ <<u>> \o f[r] \in Seq(T) /\ Sorted(<<u>> \o f[r], O)
            /\ Elems(<<u>> \o f[r]) = {u} \cup Elems(f[r])
        BY <3>1, <4>2, <4>4, ConsSorts
      <4>6. Good(q)
        BY <2>4, <3>4, <4>1, <4>2, <4>3, <4>5
      <4>. QED BY <2>3, <4>6
    <3>7. CASE ~ (w[u] > w[v])
      <4>. DEFINE r == <<i, j + 1>>
      <4>1. f[q] = <<v>> \o f[r]
        BY <1>1, <2>4, <2>8, <3>7 DEF u, v
      <4>2. Good(r)
        <5>0. i + 1 \in 0..m /\ j + 1 \in 0..n /\ (m - i) + (n - j) - 1 < k - 1
          BY <1>0, <2>4, <2>5, <2>8
        <5>1. r \in Near(m, n, k - 1)
          BY SMTT(30), <1>0, <5>0, InNear
        <5>. HIDE DEF r, Good
        <5>. QED BY <2>5, <5>1
      <4>3. r[1] = i /\ r[2] = j + 1
        OBVIOUS
      <4>. HIDE DEF r
      <4>4. \A z \in Elems(f[r]) : <<v, z>> \in O
        <5>1. <<v, u>> \in O
          BY <3>1, <3>7 DEF Crossed
        <5>. QED BY <3>2, <3>3, <3>4, <4>2, <4>3, <5>1 DEF Transitive
      <4>5. /\ <<v>> \o f[r] \in Seq(T) /\ Sorted(<<v>> \o f[r], O)
            /\ Elems(<<v>> \o f[r]) = {v} \cup Elems(f[r])
        BY <3>1, <4>2, <4>4, ConsSorts
      <4>6. Good(q)
        BY <2>4, <3>5, <4>1, <4>2, <4>3, <4>5
      <4>. QED BY <2>3, <4>6
    <3>. QED BY <3>6, <3>7
  <2>. QED BY <2>6, <2>7, <2>8
<1>3. Good(<<0, 0>>)
  <2>. DEFINE r == <<0, 0>>
  <2>1. r \in Near(m, n, m + n + 1) /\ m + n + 1 \in Nat
    BY <1>0 DEF Near
  <2>. HIDE DEF Good, r
  <2>2. Good(r)
    BY <1>2, <2>1
  <2>. QED BY <2>2 DEF r
<1>4. Left(a, 0) = Elems(a) /\ Left(b, 0) = Elems(b)
  BY DEF Left, Elems
<1>. QED BY <1>3, <1>4, MergeIs DEF f

\* The sorts of n elements, f being those of fewer.
SortOf(s, w, f, n) ==
    [lo \in 1..(Len(s) - n + 1) |->
       IF n < 2 THEN SubSeq(s, lo, lo + n - 1)
       ELSE MergeByWeight(f[n \div 2][lo + SplitHalf(n)], f[SplitHalf(n)][lo], w)]

SortTable(s, w, f) == f = [n \in 0..Len(s) |-> SortOf(s, w, f, n)]

LEMMA Halves ==
    ASSUME NEW n \in Nat, n >= 2
    PROVE  n \div 2 \in 1..(n - 1) /\ SplitHalf(n) \in 1..(n - 1) /\ SplitHalf(n) + n \div 2 = n
BY DEF SplitHalf

LEMMA SortsExist ==
    ASSUME NEW s, NEW w, Len(s) \in Nat
    PROVE  \E f : SortTable(s, w, f)
<1>. DEFINE Fits(g, k) == g = [n \in 0..(k - 1) |-> SortOf(s, w, g, n)]
            T == {k \in Nat : ~ \E g : Fits(g, k)}
<1>1. T = {}
  <2>1. SUFFICES ASSUME T # {} PROVE FALSE
    OBVIOUS
  <2>2. PICK k \in T : \A j \in T : k <= j
    <3>1. T \in SUBSET Nat
      OBVIOUS
    <3>. HIDE DEF T
    <3>. QED BY <2>1, <3>1, LeastNatural
  <2>3. CASE k = 0
    <3>1. 0..(0 - 1) = {}
      OBVIOUS
    <3>2. \A g : [n \in {} |-> SortOf(s, w, g, n)] = [n \in {} |-> 0]
      OBVIOUS
    <3>3. Fits([n \in {} |-> 0], 0)
      BY <3>1, <3>2
    <3>. QED BY <2>2, <2>3, <3>3
  <2>4. CASE k # 0
    <3>1. k - 1 \in Nat /\ k - 1 \notin T
      BY <2>2, <2>4
    <3>2. PICK f : Fits(f, k - 1)
      BY <3>1
    <3>. DEFINE g == [n \in 0..(k - 1) |-> SortOf(s, w, f, n)]
    <3>3. ASSUME NEW n \in 0..(k - 2) PROVE g[n] = f[n]
      <4>1. n \in 0..(k - 1) /\ n \in 0..((k - 1) - 1)
        BY <3>1
      <4>. QED BY <3>2, <4>1
    <3>4. ASSUME NEW n \in 0..(k - 1)
          PROVE  SortOf(s, w, f, n) = SortOf(s, w, g, n)
      <4>1. CASE n < 2
        BY <4>1, Zenon DEF SortOf
      <4>2. CASE ~ (n < 2)
        <5>1. n \div 2 \in 0..(k - 2) /\ SplitHalf(n) \in 0..(k - 2)
          BY <3>1, <4>2, Halves
        <5>2. f[n \div 2] = g[n \div 2] /\ f[SplitHalf(n)] = g[SplitHalf(n)]
          BY <3>3, <5>1
        <5>. QED BY <5>2, Zenon DEF SortOf
      <4>. QED BY <4>1, <4>2
    <3>5. Fits(g, k)
      BY <3>4, Zenon
    <3>. QED BY <2>2, <3>5
  <2>. QED BY <2>3, <2>4
<1>2. PICK g : Fits(g, Len(s) + 1)
  <2>1. Len(s) + 1 \in Nat
    OBVIOUS
  <2>. HIDE DEF Table
  <2>. QED BY <1>1, <2>1
<1>3. 0..((Len(s) + 1) - 1) = 0..Len(s)
  OBVIOUS
<1>. QED BY <1>2, <1>3 DEF SortTable

Sorts(s, w) == CHOOSE f : SortTable(s, w, f)

LEMMA SortIs ==
    ASSUME NEW s, NEW w
    PROVE  MergeSort(s, w) = IF Len(s) < 2 THEN s ELSE Sorts(s, w)[Len(s)][1]
BY Zenon DEF MergeSort, Sorts, SortTable, SortOf

LEMMA SortsAt ==
    ASSUME NEW s, NEW w, Len(s) \in Nat, NEW n \in 0..Len(s), NEW lo \in 1..(Len(s) - n + 1)
    PROVE  Sorts(s, w)[n][lo] =
             IF n < 2 THEN SubSeq(s, lo, lo + n - 1)
             ELSE MergeByWeight(Sorts(s, w)[n \div 2][lo + SplitHalf(n)],
                                Sorts(s, w)[SplitHalf(n)][lo], w)
<1>1. SortTable(s, w, Sorts(s, w))
  BY SortsExist DEF Sorts
<1>2. Sorts(s, w)[n] = SortOf(s, w, Sorts(s, w), n)
  BY <1>1 DEF SortTable
<1>. QED BY <1>2, Zenon DEF SortOf

\* The order a stable sort by weight leaves.
ByWeight(s, w, T) ==
    {p \in T \X T : \/ w[p[1]] > w[p[2]]
                    \/ w[p[1]] = w[p[2]] /\ Before(s, p[1], p[2])}

LEMMA ByWeightIs ==
    ASSUME NEW s, NEW w, NEW T, NEW u, NEW v
    PROVE  <<u, v>> \in ByWeight(s, w, T) <=>
             /\ u \in T /\ v \in T
             /\ \/ w[u] > w[v]
                \/ w[u] = w[v] /\ Before(s, u, v)
BY DEF ByWeight

Distinct(s) == \A x, y \in 1..Len(s) : s[x] = s[y] => x = y

LEMMA ByWeightOrders ==
    ASSUME NEW T, NEW s \in Seq(T), NEW w \in [T -> Int], Distinct(s)
    PROVE  /\ Transitive(ByWeight(s, w, T))
           /\ \A u, v : ~ (<<u, v>> \in ByWeight(s, w, T) /\ <<v, u>> \in ByWeight(s, w, T))
<1>1. DOMAIN s = 1..Len(s) /\ Len(s) \in Nat
  OBVIOUS
<1>2. ASSUME NEW u, NEW v, NEW z, Before(s, u, v), Before(s, v, z) PROVE Before(s, u, z)
  <2>1. PICK i, j \in 1..Len(s) : i < j /\ s[i] = u /\ s[j] = v
    BY <1>1, <1>2 DEF Before
  <2>2. PICK k, l \in 1..Len(s) : k < l /\ s[k] = v /\ s[l] = z
    BY <1>1, <1>2 DEF Before
  <2>3. j = k
    BY <2>1, <2>2 DEF Distinct
  <2>4. i < l
    BY <2>1, <2>2, <2>3
  <2>. QED BY <1>1, <2>1, <2>2, <2>4 DEF Before
<1>3. ASSUME NEW u, Before(s, u, u) PROVE FALSE
  <2>1. PICK i, j \in 1..Len(s) : i < j /\ s[i] = u /\ s[j] = u
    BY <1>1, <1>3 DEF Before
  <2>. QED BY <2>1 DEF Distinct
<1>4. \A u \in T : w[u] \in Int
  OBVIOUS
<1>5. Transitive(ByWeight(s, w, T))
  <2>. SUFFICES ASSUME NEW u, NEW v, NEW z, <<u, v>> \in ByWeight(s, w, T),
                       <<v, z>> \in ByWeight(s, w, T)
                PROVE  <<u, z>> \in ByWeight(s, w, T)
    BY DEF Transitive
  <2>1. /\ u \in T /\ v \in T /\ z \in T
        /\ w[u] > w[v] \/ (w[u] = w[v] /\ Before(s, u, v))
        /\ w[v] > w[z] \/ (w[v] = w[z] /\ Before(s, v, z))
    BY ByWeightIs
  <2>2. w[u] > w[z] \/ (w[u] = w[z] /\ Before(s, u, z))
    BY <1>2, <1>4, <2>1
  <2>. QED BY <2>1, <2>2, ByWeightIs
<1>6. ASSUME NEW u, NEW v, <<u, v>> \in ByWeight(s, w, T), <<v, u>> \in ByWeight(s, w, T)
      PROVE  FALSE
  <2>1. /\ u \in T /\ v \in T
        /\ w[u] > w[v] \/ (w[u] = w[v] /\ Before(s, u, v))
        /\ w[v] > w[u] \/ (w[v] = w[u] /\ Before(s, v, u))
    BY <1>6, ByWeightIs
  <2>2. Before(s, u, v) /\ Before(s, v, u)
    BY <1>4, <2>1
  <2>. QED BY <1>2, <1>3, <2>2
<1>. QED BY <1>5, <1>6

\* The n elements from the lo-th on.
Stretch(s, lo, n) == {s[x] : x \in lo..(lo + n - 1)}

\* What mergeSortByWeight relinks is a stable sort of what it is given.
LEMMA SortSorts ==
    ASSUME NEW T, NEW s \in Seq(T), NEW w \in [T -> Int], Distinct(s)
    PROVE  /\ MergeSort(s, w) \in Seq(T)
           /\ Sorted(MergeSort(s, w), ByWeight(s, w, T))
           /\ Elems(MergeSort(s, w)) = Elems(s)
<1>. DEFINE O == ByWeight(s, w, T)
            m == Len(s)
            f == Sorts(s, w)
            GoodAt(n, lo) == /\ f[n][lo] \in Seq(T)
                             /\ Sorted(f[n][lo], O)
                             /\ Elems(f[n][lo]) = Stretch(s, lo, n)
            B == {n \in 0..m : \E lo \in 1..(m - n + 1) : ~ GoodAt(n, lo)}
<1>0. m \in Nat /\ DOMAIN s = 1..m /\ \A x \in 1..m : s[x] \in T
  BY LenProperties, ElementOfSeq
<1>1. Transitive(O)
  BY ByWeightOrders
<1>2. ASSUME NEW n \in 0..m, NEW lo \in 1..(m - n + 1)
      PROVE  f[n][lo] = IF n < 2 THEN SubSeq(s, lo, lo + n - 1)
                        ELSE MergeByWeight(f[n \div 2][lo + SplitHalf(n)], f[SplitHalf(n)][lo], w)
  BY <1>0, SortsAt
<1>. HIDE DEF f
<1>3. B = {}
  <2>1. SUFFICES ASSUME B # {} PROVE FALSE
    OBVIOUS
  <2>2. PICK n \in B : \A x \in B : n <= x
    <3>1. B \in SUBSET Nat
      BY <1>0
    <3>. HIDE DEF B
    <3>. QED BY <2>1, <3>1, LeastNatural
  <2>3. PICK lo \in 1..(m - n + 1) : ~ GoodAt(n, lo)
    BY <2>2
  <2>4. n \in 0..m
    BY <2>2
  <2>5. ASSUME NEW k \in 0..(n - 1), NEW l \in 1..(m - k + 1) PROVE GoodAt(k, l)
    <3>1. k \in 0..m /\ ~ (n <= k)
      BY <1>0, <2>4
    <3>2. k \notin B
      <4>. HIDE DEF B
      <4>. QED BY <2>2, <3>1
    <3>. HIDE DEF GoodAt
    <3>. QED BY <3>1, <3>2
  <2>6. CASE n < 2
    <3>. DEFINE r == SubSeq(s, lo, lo + n - 1)
    <3>1. f[n][lo] = r
      BY <1>2, <2>4, <2>6
    <3>2. r \in Seq(T) /\ Len(r) = n /\ \A x \in 1..n : r[x] = s[lo + x - 1]
      <4>1. /\ lo \in Int /\ lo + n - 1 \in Int /\ lo + n - 1 <= m
            /\ \A x \in lo..(lo + n - 1) : s[x] \in T
            /\ (lo <= lo + n - 1 <=> n # 0) /\ (lo + n - 1) - lo + 1 = n
        BY <1>0, <2>4, <2>6
      <4>2. /\ r \in Seq(T)
            /\ Len(r) = IF lo <= lo + n - 1 THEN (lo + n - 1) - lo + 1 ELSE 0
            /\ \A x \in 1..((lo + n - 1) - lo + 1) : r[x] = s[lo + x - 1]
        BY <4>1, SubSeqProperties
      <4>. HIDE DEF r
      <4>. QED BY <4>1, <4>2
    <3>. HIDE DEF r
    <3>3. Sorted(r, O)
      BY <2>4, <2>6, <3>2 DEF Sorted
    <3>4. Elems(r) = Stretch(s, lo, n)
      <4>1. CASE n = 0
        BY <3>2, <4>1 DEF Elems, Stretch
      <4>2. CASE n = 1
        <5>1. 1..Len(r) = {1} /\ lo..(lo + n - 1) = {lo} /\ r[1] = s[lo]
          BY <3>2, <4>2
        <5>. QED BY <5>1 DEF Elems, Stretch
      <4>. QED BY <2>4, <2>6, <4>1, <4>2
    <3>. QED BY <2>3, <3>1, <3>2, <3>3, <3>4
  <2>7. CASE ~ (n < 2)
    <3>. DEFINE h == SplitHalf(n)
                k == n \div 2
                a == f[k][lo + h]
                b == f[h][lo]
    <3>. HIDE DEF B, m
    <3>1. k \in 1..(n - 1) /\ h \in 1..(n - 1) /\ h + k = n
      BY <2>4, <2>7, Halves
    <3>2. f[n][lo] = MergeByWeight(a, b, w)
      BY <1>2, <2>4, <2>7
    <3>. HIDE DEF h, k
    <3>3. GoodAt(k, lo + h)
      <4>1. k \in 0..(n - 1) /\ lo + h \in 1..(m - k + 1)
        BY <1>0, <2>4, <3>1
      <4>. HIDE DEF GoodAt
      <4>. QED BY <2>5, <4>1
    <3>4. GoodAt(h, lo)
      <4>1. h \in 0..(n - 1) /\ lo \in 1..(m - h + 1)
        BY <1>0, <2>4, <3>1
      <4>. HIDE DEF GoodAt
      <4>. QED BY <2>5, <4>1
    <3>. HIDE DEF a, b
    <3>5. /\ a \in Seq(T) /\ Sorted(a, O) /\ Elems(a) = Stretch(s, lo + h, k)
          /\ b \in Seq(T) /\ Sorted(b, O) /\ Elems(b) = Stretch(s, lo, h)
      BY <3>3, <3>4 DEF a, b
    <3>6. ASSUME NEW u \in Elems(a), NEW v \in Elems(b)
          PROVE  IF w[u] > w[v] THEN <<u, v>> \in O ELSE <<v, u>> \in O
      <4>1. PICK x \in (lo + h)..(lo + h + k - 1) : u = s[x]
        BY <3>5 DEF Stretch
      <4>2. PICK y \in lo..(lo + h - 1) : v = s[y]
        BY <3>5 DEF Stretch
      <4>3. x \in 1..m /\ y \in 1..m /\ y < x
        <5>. HIDE DEF O
        <5>1. h \in Nat /\ k \in Nat /\ lo \in Nat /\ m \in Nat /\ lo >= 1
          BY <1>0, <2>4, <3>1
        <5>2. lo + h + k - 1 <= m
          BY <1>0, <2>4, <3>1
        <5>. QED BY <5>1, <5>2
      <4>4. u \in T /\ v \in T /\ w[u] \in Int /\ w[v] \in Int /\ Before(s, v, u)
        BY <1>0, <4>1, <4>2, <4>3 DEF Before
      <4>5. w[u] > w[v] \/ w[v] > w[u] \/ w[v] = w[u]
        BY <4>4
      <4>. QED BY <4>4, <4>5, ByWeightIs
    <3>7. /\ MergeByWeight(a, b, w) \in Seq(T)
          /\ Sorted(MergeByWeight(a, b, w), O)
          /\ Elems(MergeByWeight(a, b, w)) = Elems(a) \cup Elems(b)
      <4>. HIDE DEF O
      <4>1. Crossed(a, b, w, O)
        BY <3>6 DEF Crossed
      <4>2. a \in Seq(T) /\ b \in Seq(T) /\ Sorted(a, O) /\ Sorted(b, O) /\ Transitive(O)
        BY <1>1, <3>5
      <4>. QED BY <4>1, <4>2, MergeSorts
    <3>8. Stretch(s, lo, n) = Stretch(s, lo + h, k) \cup Stretch(s, lo, h)
      <4>1. lo..(lo + n - 1) = ((lo + h)..(lo + h + k - 1)) \cup (lo..(lo + h - 1))
        <5>1. h \in Nat /\ k \in Nat /\ lo \in Nat /\ n = h + k
          BY <1>0, <2>4, <3>1
        <5>. QED BY <5>1
      <4>. QED BY <4>1 DEF Stretch
    <3>. QED BY <2>3, <3>2, <3>5, <3>7, <3>8
  <2>. QED BY <2>6, <2>7
<1>4. CASE m < 2
  <2>1. MergeSort(s, w) = s
    BY <1>4, SortIs
  <2>2. Sorted(s, O)
    BY <1>0, <1>4 DEF Sorted
  <2>. QED BY <2>1, <2>2
<1>5. CASE ~ (m < 2)
  <2>1. MergeSort(s, w) = f[m][1]
    BY <1>5, SortIs DEF f
  <2>2. GoodAt(m, 1)
    <3>1. m \in 0..m /\ 1 \in 1..(m - m + 1)
      BY <1>0
    <3>. HIDE DEF GoodAt
    <3>. QED BY <1>3, <3>1
  <2>3. Stretch(s, 1, m) = Elems(s)
    <3>1. 1..(1 + m - 1) = 1..m
      BY <1>0
    <3>. QED BY <3>1 DEF Stretch, Elems
  <2>. QED BY <2>1, <2>2, <2>3
<1>. QED BY <1>4, <1>5

(***************************************************************************)
(* Sums of sequences: the evictor's figures in the channel.                *)
(***************************************************************************)
\* The sum of a sequence, its last element or its first one apart.
LEMMA SumUpTo ==
    ASSUME NEW s, NEW k \in Nat, \A x \in 1..(k + 1) : s[x] \in Int
    PROVE  SumFunctionOnSet(s, 1..(k + 1)) = SumFunctionOnSet(s, 1..k) + s[k + 1]
<1>1. IsFiniteSet(1..k) /\ k + 1 \notin 1..k
  BY FS_Interval
<1>2. 1..(k + 1) = (1..k) \cup {k + 1}
  OBVIOUS
<1>3. SumFunctionOnSet(s, (1..k) \cup {k + 1}) = s[k + 1] + SumFunctionOnSet(s, 1..k)
  <2>1. \A y \in (1..k) \cup {k + 1} : s[y] \in Int
    BY <1>2
  <2>. QED BY <1>1, <2>1, SumAdd
<1>4. SumFunctionOnSet(s, 1..k) \in Int /\ s[k + 1] \in Int
  <2>1. \A y \in 1..k : s[y] \in Int
    BY <1>2
  <2>. QED BY <1>1, <1>2, <2>1, SumInt
<1>5. ASSUME NEW a \in Int, NEW b \in Int PROVE a + b = b + a
  OBVIOUS
<1>. QED BY <1>2, <1>3, <1>4, <1>5, Zenon

LEMMA SumAppend ==
    ASSUME NEW s \in Seq(Int), NEW x \in Int
    PROVE  SumFunction(Append(s, x)) = SumFunction(s) + x
<1>. DEFINE t == Append(s, x)
            n == Len(s)
<1>1. /\ n \in Nat /\ DOMAIN s = 1..n /\ DOMAIN t = 1..(n + 1) /\ t[n + 1] = x
      /\ \A y \in 1..n : t[y] = s[y] /\ s[y] \in Int
  BY AppendProperties, LenProperties, ElementOfSeq
<1>. HIDE DEF t, n
<1>2. \A y \in 1..(n + 1) : t[y] \in Int
  BY <1>1
<1>3. SumFunctionOnSet(t, 1..(n + 1)) = SumFunctionOnSet(t, 1..n) + x
  BY <1>1, <1>2, SumUpTo
<1>4. SumFunctionOnSet(t, 1..n) = SumFunctionOnSet(s, 1..n)
  <2>1. IsFiniteSet(1..n)
    BY <1>1, FS_Interval
  <2>. QED BY <1>1, <2>1, SumSame
<1>. QED BY <1>1, <1>3, <1>4 DEF SumFunction, t

LEMMA SumTail ==
    ASSUME NEW s \in Seq(Int), s # <<>>
    PROVE  SumFunction(s) = Head(s) + SumFunction(Tail(s))
<1>. DEFINE t == Tail(s)
            n == Len(s)
            Same(k) == SumFunctionOnSet(s, 1..(k + 1)) = s[1] + SumFunctionOnSet(t, 1..k)
            B == {k \in 0..(n - 1) : ~ Same(k)}
<1>1. /\ n \in Nat /\ n >= 1 /\ DOMAIN s = 1..n /\ DOMAIN t = 1..(n - 1)
      /\ t \in Seq(Int) /\ Head(s) = s[1]
      /\ \A x \in 1..n : s[x] \in Int
      /\ \A x \in 1..(n - 1) : t[x] = s[x + 1] /\ t[x] \in Int
  <2>1. /\ n \in Nat /\ DOMAIN s = 1..n /\ n # 0 /\ Head(s) = s[1] /\ \A x \in 1..n : s[x] \in Int
    BY EmptySeq, LenProperties, ElementOfSeq
  <2>2. t \in Seq(Int) /\ Len(t) = n - 1 /\ \A x \in 1..Len(t) : t[x] = s[x + 1]
    BY HeadTailProperties
  <2>3. DOMAIN t = 1..(n - 1) /\ \A x \in 1..(n - 1) : t[x] \in Int
    BY <2>2, LenProperties, ElementOfSeq
  <2>. QED BY <2>1, <2>2, <2>3
<1>. HIDE DEF t, n
<1>2. B = {}
  <2>1. SUFFICES ASSUME B # {} PROVE FALSE
    OBVIOUS
  <2>2. PICK k \in B : \A x \in B : k <= x
    <3>1. B \in SUBSET Nat
      BY <1>1
    <3>. HIDE DEF B
    <3>. QED BY <2>1, <3>1, LeastNatural
  <2>3. k \in 0..(n - 1)
    OBVIOUS
  <2>4. CASE k = 0
    <3>1. SumFunctionOnSet(s, 1..(0 + 1)) = SumFunctionOnSet(s, 1..0) + s[0 + 1]
      <4>1. \A x \in 1..(0 + 1) : s[x] \in Int
        BY <1>1
      <4>. QED BY <4>1, SumUpTo
    <3>2. SumFunctionOnSet(s, 1..0) = 0 /\ SumFunctionOnSet(t, 1..0) = 0
      <4>1. 1..0 = {}
        OBVIOUS
      <4>. QED BY <4>1, SumEmpty
    <3>3. s[1] \in Int
      BY <1>1
    <3>. QED BY <2>4, <3>1, <3>2, <3>3
  <2>5. CASE k # 0
    <3>1. k - 1 \in 0..(n - 1) /\ ~ (k <= k - 1)
      BY <1>1, <2>3, <2>5
    <3>2. Same(k - 1)
      <4>1. k - 1 \notin B
        <5>. HIDE DEF B
        <5>. QED BY <2>2, <3>1
      <4>. HIDE DEF Same
      <4>. QED BY <3>1, <4>1
    <3>3. k \in Nat /\ (k - 1) + 1 = k
      BY <2>3
    <3>4. SumFunctionOnSet(s, 1..(k + 1)) = SumFunctionOnSet(s, 1..k) + s[k + 1]
      <4>1. \A x \in 1..(k + 1) : s[x] \in Int
        BY <1>1, <2>3
      <4>. QED BY <3>3, <4>1, SumUpTo
    <3>5. SumFunctionOnSet(t, 1..((k - 1) + 1)) = SumFunctionOnSet(t, 1..(k - 1)) + t[(k - 1) + 1]
      <4>1. k - 1 \in Nat /\ \A x \in 1..((k - 1) + 1) : t[x] \in Int
        BY <1>1, <2>3, <3>1
      <4>. QED BY <4>1, SumUpTo
    <3>6. SumFunctionOnSet(t, 1..(k - 1)) \in Int
      <4>1. IsFiniteSet(1..(k - 1))
        BY <2>3, <3>1, FS_Interval
      <4>2. \A x \in 1..(k - 1) : t[x] \in Int
        BY <1>1, <2>3
      <4>. QED BY <4>1, <4>2, SumInt
    <3>7. s[1] \in Int /\ s[k + 1] \in Int /\ t[k] = s[k + 1]
      BY <1>1, <2>3, <2>5
    <3>8. SumFunctionOnSet(s, 1..k) = s[1] + SumFunctionOnSet(t, 1..(k - 1))
      BY <3>2, <3>3
    <3>9. SumFunctionOnSet(t, 1..k) = SumFunctionOnSet(t, 1..(k - 1)) + t[k]
      BY <3>3, <3>5
    <3>10. Same(k)
      BY <3>4, <3>6, <3>7, <3>8, <3>9
    <3>. QED BY <2>2, <3>10
  <2>. QED BY <2>4, <2>5
<1>3. Same(n - 1)
  <2>1. n - 1 \in 0..(n - 1)
    BY <1>1
  <2>. HIDE DEF Same
  <2>. QED BY <1>2, <2>1
<1>4. (n - 1) + 1 = n
  BY <1>1
<1>. QED BY <1>1, <1>3, <1>4 DEF SumFunction, t

\* The items and the weights of a queue of figures, as sequences.
ItemsOf(q) == [i \in DOMAIN q |-> q[i].items]
FreedOf(q) == [i \in DOMAIN q |-> q[i].freed]

LEMMA FiguresIs ==
    /\ \A x \in Figures : x.items \in Int /\ x.freed \in Int
                          /\ x = [items |-> x.items, freed |-> x.freed]
    /\ \A a, b \in Int : [items |-> a, freed |-> b] \in Figures
    /\ \A x, y \in Figures : Plus(x, y) \in Figures
    /\ None \in Figures
BY DEF Figures, Plus, None

LEMMA QueuesAre ==
    ASSUME NEW q \in Seq(Figures)
    PROVE  ItemsOf(q) \in Seq(Int) /\ FreedOf(q) \in Seq(Int)
           /\ Len(ItemsOf(q)) = Len(q) /\ Len(FreedOf(q)) = Len(q)
<1>1. Len(q) \in Nat /\ DOMAIN q = 1..Len(q) /\ \A i \in 1..Len(q) : q[i] \in Figures
  BY LenProperties, ElementOfSeq
<1>2. \A i \in 1..Len(q) : q[i].items \in Int /\ q[i].freed \in Int
  BY <1>1, FiguresIs
<1>3. ItemsOf(q) \in [1..Len(q) -> Int] /\ FreedOf(q) \in [1..Len(q) -> Int]
  BY <1>1, <1>2 DEF ItemsOf, FreedOf
<1>4. \A f \in [1..Len(q) -> Int] : f \in Seq(Int) /\ Len(f) = Len(q)
  BY <1>1
<1>. QED BY <1>3, <1>4

LEMMA TotalIs ==
    ASSUME NEW q
    PROVE  Total(q) = [items |-> SumFunction(ItemsOf(q)), freed |-> SumFunction(FreedOf(q))]
BY DEF Total, ItemsOf, FreedOf

LEMMA SumSeqInt == ASSUME NEW s \in Seq(Int) PROVE SumFunction(s) \in Int
<1>1. Len(s) \in Nat /\ DOMAIN s = 1..Len(s) /\ \A i \in 1..Len(s) : s[i] \in Int
  BY LenProperties, ElementOfSeq
<1>2. IsFiniteSet(1..Len(s))
  BY <1>1, FS_Interval
<1>. QED BY <1>1, <1>2, SumInt DEF SumFunction

LEMMA TotalType == ASSUME NEW q \in Seq(Figures) PROVE Total(q) \in Figures
BY QueuesAre, TotalIs, SumSeqInt, FiguresIs

LEMMA TotalEmpty == Total(<<>>) = None
<1>1. SumFunction(ItemsOf(<<>>)) = 0 /\ SumFunction(FreedOf(<<>>)) = 0
  <2>1. DOMAIN ItemsOf(<<>>) = {} /\ DOMAIN FreedOf(<<>>) = {}
    BY DEF ItemsOf, FreedOf
  <2>. QED BY <2>1, SumEmpty DEF SumFunction
<1>. QED BY <1>1, TotalIs DEF None

LEMMA TotalAppend ==
    ASSUME NEW q \in Seq(Figures), NEW x \in Figures
    PROVE  Total(Append(q, x)) = Plus(Total(q), x)
<1>1. /\ Len(q) \in Nat /\ DOMAIN q = 1..Len(q) /\ DOMAIN Append(q, x) = 1..(Len(q) + 1)
      /\ \A i \in 1..Len(q) : Append(q, x)[i] = q[i]
      /\ Append(q, x)[Len(q) + 1] = x
  BY AppendProperties, LenProperties
<1>2. /\ ItemsOf(q) \in Seq(Int) /\ Len(ItemsOf(q)) = Len(q)
      /\ FreedOf(q) \in Seq(Int) /\ Len(FreedOf(q)) = Len(q)
      /\ x.items \in Int /\ x.freed \in Int
  BY QueuesAre, FiguresIs
<1>3. Append(q, x) \in Seq(Figures)
  BY AppendProperties
<1>4. /\ ItemsOf(Append(q, x)) \in Seq(Int) /\ Len(ItemsOf(Append(q, x))) = Len(q) + 1
      /\ FreedOf(Append(q, x)) \in Seq(Int) /\ Len(FreedOf(Append(q, x))) = Len(q) + 1
  BY <1>3, QueuesAre, AppendProperties
<1>5. ItemsOf(Append(q, x)) = Append(ItemsOf(q), x.items)
  <2>1. /\ Append(ItemsOf(q), x.items) \in Seq(Int)
        /\ Len(Append(ItemsOf(q), x.items)) = Len(q) + 1
        /\ \A i \in 1..Len(q) : Append(ItemsOf(q), x.items)[i] = ItemsOf(q)[i]
        /\ Append(ItemsOf(q), x.items)[Len(q) + 1] = x.items
    BY <1>2, AppendProperties
  <2>2. \A i \in 1..(Len(q) + 1) : ItemsOf(Append(q, x))[i] = Append(ItemsOf(q), x.items)[i]
    BY <1>1, <2>1 DEF ItemsOf
  <2>. QED BY <1>4, <2>1, <2>2, SeqEqual
<1>6. FreedOf(Append(q, x)) = Append(FreedOf(q), x.freed)
  <2>1. /\ Append(FreedOf(q), x.freed) \in Seq(Int)
        /\ Len(Append(FreedOf(q), x.freed)) = Len(q) + 1
        /\ \A i \in 1..Len(q) : Append(FreedOf(q), x.freed)[i] = FreedOf(q)[i]
        /\ Append(FreedOf(q), x.freed)[Len(q) + 1] = x.freed
    BY <1>2, AppendProperties
  <2>2. \A i \in 1..(Len(q) + 1) : FreedOf(Append(q, x))[i] = Append(FreedOf(q), x.freed)[i]
    BY <1>1, <2>1 DEF FreedOf
  <2>. QED BY <1>4, <2>1, <2>2, SeqEqual
<1>7. /\ SumFunction(Append(ItemsOf(q), x.items)) = SumFunction(ItemsOf(q)) + x.items
      /\ SumFunction(Append(FreedOf(q), x.freed)) = SumFunction(FreedOf(q)) + x.freed
  BY <1>2, SumAppend
<1>. QED BY <1>5, <1>6, <1>7, TotalIs DEF Plus

LEMMA TotalTail ==
    ASSUME NEW q \in Seq(Figures), q # <<>>
    PROVE  Total(q) = Plus(Head(q), Total(Tail(q)))
<1>1. /\ Len(q) \in Nat /\ Len(q) >= 1 /\ DOMAIN q = 1..Len(q) /\ Head(q) = q[1]
      /\ Tail(q) \in Seq(Figures) /\ Len(Tail(q)) = Len(q) - 1
      /\ DOMAIN Tail(q) = 1..(Len(q) - 1)
      /\ \A i \in 1..(Len(q) - 1) : Tail(q)[i] = q[i + 1]
  <2>1. Len(q) \in Nat /\ DOMAIN q = 1..Len(q) /\ Len(q) # 0 /\ Head(q) = q[1]
    BY EmptySeq, LenProperties
  <2>2. /\ Tail(q) \in Seq(Figures) /\ Len(Tail(q)) = Len(q) - 1
        /\ \A i \in 1..Len(Tail(q)) : Tail(q)[i] = q[i + 1]
    BY HeadTailProperties
  <2>. QED BY <2>1, <2>2, LenProperties
<1>2. /\ ItemsOf(q) \in Seq(Int) /\ Len(ItemsOf(q)) = Len(q)
      /\ FreedOf(q) \in Seq(Int) /\ Len(FreedOf(q)) = Len(q)
      /\ ItemsOf(Tail(q)) \in Seq(Int) /\ Len(ItemsOf(Tail(q))) = Len(q) - 1
      /\ FreedOf(Tail(q)) \in Seq(Int) /\ Len(FreedOf(Tail(q))) = Len(q) - 1
  BY <1>1, QueuesAre
<1>3. ItemsOf(q) # <<>> /\ FreedOf(q) # <<>>
  BY <1>1, <1>2
<1>4. Head(ItemsOf(q)) = Head(q).items /\ Head(FreedOf(q)) = Head(q).freed
  <2>1. Head(ItemsOf(q)) = ItemsOf(q)[1] /\ Head(FreedOf(q)) = FreedOf(q)[1]
    BY <1>2, <1>3
  <2>2. 1 \in DOMAIN q
    BY <1>1
  <2>. QED BY <1>1, <2>1, <2>2 DEF ItemsOf, FreedOf
<1>5. Tail(ItemsOf(q)) = ItemsOf(Tail(q))
  <2>1. /\ Tail(ItemsOf(q)) \in Seq(Int) /\ Len(Tail(ItemsOf(q))) = Len(q) - 1
        /\ \A i \in 1..(Len(q) - 1) : Tail(ItemsOf(q))[i] = ItemsOf(q)[i + 1]
    BY <1>2, <1>3, HeadTailProperties
  <2>2. \A i \in 1..(Len(q) - 1) : Tail(ItemsOf(q))[i] = ItemsOf(Tail(q))[i]
    BY <1>1, <2>1 DEF ItemsOf
  <2>. QED BY <1>2, <2>1, <2>2, SeqEqual
<1>6. Tail(FreedOf(q)) = FreedOf(Tail(q))
  <2>1. /\ Tail(FreedOf(q)) \in Seq(Int) /\ Len(Tail(FreedOf(q))) = Len(q) - 1
        /\ \A i \in 1..(Len(q) - 1) : Tail(FreedOf(q))[i] = FreedOf(q)[i + 1]
    BY <1>2, <1>3, HeadTailProperties
  <2>2. \A i \in 1..(Len(q) - 1) : Tail(FreedOf(q))[i] = FreedOf(Tail(q))[i]
    BY <1>1, <2>1 DEF FreedOf
  <2>. QED BY <1>2, <2>1, <2>2, SeqEqual
<1>7. /\ SumFunction(ItemsOf(q)) = Head(q).items + SumFunction(ItemsOf(Tail(q)))
      /\ SumFunction(FreedOf(q)) = Head(q).freed + SumFunction(FreedOf(Tail(q)))
  BY <1>2, <1>3, <1>4, <1>5, <1>6, SumTail
<1>. QED BY <1>7, TotalIs DEF Plus

(***************************************************************************)
(* The lists.                                                              *)
(***************************************************************************)
LEMMA RemoveAtSeq ==
    ASSUME NEW T, NEW s \in Seq(T), NEW i \in 1..Len(s)
    PROVE  RemoveAt(s, i) \in Seq(T)
<1>1. Len(s) \in Nat /\ \A x \in 1..Len(s) : s[x] \in T
  BY LenProperties, ElementOfSeq
<1>2. SubSeq(s, 1, i - 1) \in Seq(T)
  <2>1. \A x \in 1..(i - 1) : s[x] \in T
    BY <1>1
  <2>. QED BY <2>1, SubSeqProperties
<1>3. SubSeq(s, i + 1, Len(s)) \in Seq(T)
  <2>1. \A x \in (i + 1)..Len(s) : s[x] \in T
    BY <1>1
  <2>. QED BY <1>1, <2>1, SubSeqProperties
<1>. QED BY <1>2, <1>3, ConcatProperties DEF RemoveAt

LEMMA MoveToFrontSeq ==
    ASSUME NEW T, NEW s \in Seq(T), NEW e \in T
    PROVE  MoveToFront(s, e) \in Seq(T)
<1>1. RemoveFirst(s, e) \in Seq(T)
  <2>1. CASE \E i \in 1..Len(s) : s[i] = e
    <3>. DEFINE I == {i \in 1..Len(s) : s[i] = e}
    <3>1. Len(s) \in Nat
      BY LenProperties
    <3>2. \E i \in I : \A j \in I : i <= j
      <4>1. I \in SUBSET Nat /\ I # {}
        BY <2>1, <3>1
      <4>. HIDE DEF I
      <4>. QED BY <4>1, LeastNatural
    <3>3. SelectInSeq(s, LAMBDA v : v = e) \in I
      <4>1. I # {}
        BY <3>2
      <4>2. SelectInSeq(s, LAMBDA v : v = e) = IF I # {} THEN Min(I) ELSE 0
        BY DEF SelectInSeq
      <4>3. Min(I) \in I
        BY <3>2 DEF Min
      <4>. HIDE DEF I
      <4>. QED BY <4>1, <4>2, <4>3
    <3>4. RemoveFirst(s, e) = RemoveAt(s, SelectInSeq(s, LAMBDA v : v = e))
      BY <2>1 DEF RemoveFirst
    <3>5. SelectInSeq(s, LAMBDA v : v = e) \in 1..Len(s)
      BY <3>3
    <3>. QED BY <3>4, <3>5, RemoveAtSeq
  <2>2. CASE ~ \E i \in 1..Len(s) : s[i] = e
    BY <2>2 DEF RemoveFirst
  <2>. QED BY <2>1, <2>2
<1>2. <<e>> \in Seq(T)
  OBVIOUS
<1>. QED BY <1>1, <1>2, ConcatProperties DEF MoveToFront

\* Figures add up in any order.
LEMMA PlusLaws ==
    ASSUME NEW a \in Figures, NEW b \in Figures, NEW c \in Figures
    PROVE  /\ Plus(Plus(a, b), c) = Plus(a, Plus(b, c))
           /\ Plus(a, b) = Plus(b, a)
           /\ Plus(a, None) = a
<1>1. /\ a.items \in Int /\ b.items \in Int /\ c.items \in Int
      /\ a.freed \in Int /\ b.freed \in Int /\ c.freed \in Int
      /\ a = [items |-> a.items, freed |-> a.freed]
  BY FiguresIs
<1>2. /\ (a.items + b.items) + c.items = a.items + (b.items + c.items)
      /\ (a.freed + b.freed) + c.freed = a.freed + (b.freed + c.freed)
      /\ a.items + b.items = b.items + a.items /\ a.freed + b.freed = b.freed + a.freed
      /\ a.items + 0 = a.items /\ a.freed + 0 = a.freed
  BY <1>1
<1>. QED BY <1>1, <1>2, Zenon DEF Plus, None

(***************************************************************************)
(* The inductive invariant: the types, the balancer's list, the shard of   *)
(* the pass, and that nothing evicted is lost or counted twice.            *)
(***************************************************************************)
\* The balancer's list has every shard once.
AllShards == Distinct(memList) /\ Elems(memList) = Shard

\* The pass has a shard to take from, and a new one has counted nothing.
PassShape == /\ ev.pc \in {"inner", "remove"} => ev.shard \in Shard
             /\ ev.pc = "wait" => ev.stat = None

EvType == [pc : {"wait", "outer", "pick", "inner", "remove", "send", "stopped"},
           so : Nat, shard : Shard \cup {Nil}, off : Nat, stat : Figures]

ShardsInv == TypeOK /\ AllShards /\ PassShape /\ StatsHonest

LEMMA ShardFinite == IsFiniteSet(Shard) /\ Nil \notin Shard /\ Nil \notin Entry
BY ShardsAssumption, FS_Interval DEF Shard

LEMMA RealMemInt == mem \in [Shard -> Int] => RealMem \in Int
BY ShardFinite, SumInt DEF RealMem, SumFunction

LEMMA OrdersAre ==
    ASSUME NEW l \in Orders
    PROVE  l \in Seq(Shard) /\ Distinct(l) /\ Elems(l) = Shard
<1>. DEFINE n == Cardinality(Shard)
<1>1. n \in Nat
  BY ShardFinite, FS_CardinalityType
<1>2. l \in [1..n -> Shard] /\ \A i, j \in 1..n : i # j => l[i] # l[j]
  BY ShardsAssumption DEF SetToSeqs
<1>3. l \in Injection(1..n, Shard)
  BY <1>2 DEF Injection, IsInjective
<1>4. Cardinality(1..n) = n
  <2>1. Cardinality(1..n) = IF 1 > n THEN 0 ELSE n - 1 + 1
    BY <1>1, FS_Interval
  <2>. QED BY <1>1, <2>1
<1>5. l \in Surjection(1..n, Shard)
  BY <1>3, <1>4, ShardFinite, FS_Injection
<1>. HIDE DEF n
<1>6. l \in Seq(Shard) /\ Len(l) = n
  BY <1>1, <1>2
<1>7. \A s \in Shard : \E i \in 1..n : l[i] = s
  BY <1>5 DEF Surjection
<1>. QED BY <1>2, <1>6, <1>7 DEF Distinct, Elems

LEMMA InitShardsInv == Init => ShardsInv
<1>. SUFFICES ASSUME Init PROVE ShardsInv
  OBVIOUS
<1>. USE DEF Init
<1>1. memList \in Seq(Shard) /\ AllShards
  BY OrdersAre DEF AllShards
<1>2. Rest \in EvType
  BY FiguresIs DEF EvType, Rest
<1>3. TypeOK
  <2>1. made \in 0..MaxEntries /\ 1..made = {}
    BY ShardsAssumption
  <2>2. lru \in [Shard -> Seq(1..made)] /\ mem \in [Shard -> Int]
    OBVIOUS
  <2>3. items \in [Key -> (1..made) \cup {Nil}] /\ keyOf \in [Entry -> Key \cup {Nil}]
    OBVIOUS
  <2>4. ev \in EvType
    BY <1>2
  <2>5. statCh \in Seq(Figures) /\ logged \in Figures /\ gone \in Figures
    BY FiguresIs
  <2>6. mapMem \in Int /\ clears \in Nat /\ ctxDone \in BOOLEAN
    <3>1. mapMem = 0 /\ clears = 0 /\ ctxDone = FALSE
      OBVIOUS
    <3>2. mapMem \in Int /\ clears \in Nat
      BY <3>1
    <3>. QED BY <3>1, <3>2
  <2>7. \A e \in 1..made : keyOf[e] \in Key
    BY <2>1
  <2>. QED BY <1>1, <2>1, <2>2, <2>3, <2>4, <2>5, <2>6, <2>7 DEF TypeOK, EvType
<1>4. PassShape
  BY DEF PassShape, Rest
<1>5. StatsHonest
  BY TotalEmpty, PlusLaws, FiguresIs DEF StatsHonest, Rest
<1>. QED BY <1>1, <1>3, <1>4, <1>5 DEF ShardsInv

LEMMA EvIs ==
    /\ Rest \in EvType /\ Rest.pc = "wait" /\ Rest.stat = None
    /\ \A e \in EvType : e.so \in Nat /\ e.off \in Nat /\ e.stat \in Figures
                          /\ e.shard \in Shard \cup {Nil}
BY FiguresIs DEF EvType, Rest

\* What the clients do leaves the evictor and its figures alone.
LEMMA ClientSteps ==
    ASSUME ShardsInv,
           UNCHANGED <<memList, mapMem, ev, statCh, logged, gone>>,
           made' \in 0..MaxEntries, items' \in [Key -> (1..made') \cup {Nil}],
           mem' \in [Shard -> Int], lru' \in [Shard -> Seq(1..made')],
           keyOf' \in [Entry -> Key \cup {Nil}], \A e \in 1..made' : keyOf'[e] \in Key,
           clears' \in Nat, ctxDone' \in BOOLEAN
    PROVE  ShardsInv'
<1>1. TypeOK'
  BY DEF ShardsInv, TypeOK
<1>2. AllShards' /\ PassShape' /\ StatsHonest'
  BY DEF ShardsInv, AllShards, Distinct, Elems, PassShape, StatsHonest, Plus, Total
<1>. QED BY <1>1, <1>2 DEF ShardsInv

LEMMA TouchStep == ASSUME ShardsInv, NEW k \in Key, Touch(k) PROVE ShardsInv'
<1>1. ShardOf[k] \in Shard
  BY ShardsAssumption
<1>2. items[k] \in 1..made
  BY DEF ShardsInv, TypeOK, Touch
<1>3. lru[ShardOf[k]] \in Seq(1..made)
  BY <1>1 DEF ShardsInv, TypeOK
<1>4. MoveToFront(lru[ShardOf[k]], items[k]) \in Seq(1..made)
  BY <1>2, <1>3, MoveToFrontSeq
<1>5. lru' = [lru EXCEPT ![ShardOf[k]] = MoveToFront(lru[ShardOf[k]], items[k])]
  BY DEF Touch
<1>6. lru' \in [Shard -> Seq(1..made)]
  <2>1. lru \in [Shard -> Seq(1..made)]
    BY DEF ShardsInv, TypeOK
  <2>. QED BY <1>4, <1>5, <2>1
<1>7. UNCHANGED <<items, mem, memList, mapMem, made, keyOf, ev, statCh, logged, gone,
                  clears, ctxDone>>
  BY DEF Touch, entries
<1>8. lru' \in [Shard -> Seq(1..made')]
  BY <1>6, <1>7
<1>9. TypeOK
  BY DEF ShardsInv
<1>10. /\ made' \in 0..MaxEntries /\ items' \in [Key -> (1..made') \cup {Nil}]
       /\ mem' \in [Shard -> Int]
       /\ keyOf' \in [Entry -> Key \cup {Nil}] /\ \A e \in 1..made' : keyOf'[e] \in Key
       /\ clears' \in Nat /\ ctxDone' \in BOOLEAN
  BY <1>7, <1>9 DEF TypeOK
<1>. QED BY <1>7, <1>8, <1>10, ClientSteps

LEMMA InsertStep == ASSUME ShardsInv, NEW k \in Key, Insert(k) PROVE ShardsInv'
<1>. DEFINE e == made + 1
<1>0. TypeOK
  BY DEF ShardsInv
<1>1. /\ made \in Nat /\ made < MaxEntries /\ MaxEntries \in Nat /\ made' = e
  BY <1>0, ShardsAssumption DEF TypeOK, Insert
<1>2. e \in Entry /\ e \in 1..made' /\ 1..made \subseteq 1..made' /\ 1..made' = (1..made) \cup {e}
      /\ made' \in 0..MaxEntries
  BY <1>1 DEF Entry
<1>3. items' \in [Key -> (1..made') \cup {Nil}]
  <2>1. items' = [items EXCEPT ![k] = e]
    BY DEF Insert
  <2>. HIDE DEF e
  <2>. QED BY <1>0, <1>2, <2>1 DEF TypeOK
<1>4. mem' \in [Shard -> Int]
  <2>1. ShardOf[k] \in Shard /\ WeightOf[e] \in Int
    BY <1>2, ShardsAssumption
  <2>2. mem \in [Shard -> Int]
    BY <1>0 DEF TypeOK
  <2>3. mem' = [mem EXCEPT ![ShardOf[k]] = @ + WeightOf[e]]
    BY DEF Insert
  <2>. HIDE DEF e
  <2>. QED BY <2>1, <2>2, <2>3
<1>5. lru' \in [Shard -> Seq(1..made')]
  <2>1. lru \in [Shard -> Seq(1..made')]
    <3>1. \A s \in Shard : lru[s] \in Seq(1..made)
      BY <1>0 DEF TypeOK
    <3>2. \A s \in Shard : lru[s] \in Seq(1..made')
      BY <1>2, <3>1, SeqMonotonic
    <3>3. lru = [s \in Shard |-> lru[s]]
      BY <1>0 DEF TypeOK
    <3>. QED BY <3>2, <3>3
  <2>2. <<e>> \in Seq(1..made')
    BY <1>2
  <2>3. \A s \in Shard : <<e>> \o lru[s] \in Seq(1..made')
    <3>. HIDE DEF e
    <3>. QED BY <2>1, <2>2, ConcatProperties
  <2>4. lru' = [lru EXCEPT ![ShardOf[k]] = <<e>> \o lru[ShardOf[k]]]
    BY DEF Insert
  <2>5. ShardOf[k] \in Shard
    BY ShardsAssumption
  <2>. HIDE DEF e
  <2>. QED BY <2>1, <2>3, <2>4, <2>5
<1>6. keyOf' \in [Entry -> Key \cup {Nil}] /\ \A x \in 1..made' : keyOf'[x] \in Key
  <2>1. keyOf' = [keyOf EXCEPT ![e] = k]
    BY DEF Insert
  <2>. HIDE DEF e
  <2>2. keyOf \in [Entry -> Key \cup {Nil}] /\ \A x \in 1..made : keyOf[x] \in Key
    BY <1>0 DEF TypeOK
  <2>3. \A x \in 1..made' : x \in Entry
    BY <1>1, <1>2 DEF Entry
  <2>. QED BY <1>2, <2>1, <2>2, <2>3
<1>7. UNCHANGED <<memList, mapMem, ev, statCh, logged, gone, clears, ctxDone>>
  BY DEF Insert
<1>8. clears' \in Nat /\ ctxDone' \in BOOLEAN
  BY <1>0, <1>7 DEF TypeOK
<1>. HIDE DEF e
<1>. QED BY <1>2, <1>3, <1>4, <1>5, <1>6, <1>7, <1>8, ClientSteps

LEMMA ClearStep == ASSUME ShardsInv, Clear PROVE ShardsInv'
<1>1. TypeOK
  BY DEF ShardsInv
<1>2. /\ items' = [k \in Key |-> Nil] /\ mem' = [s \in Shard |-> 0] /\ clears' = clears + 1
      /\ UNCHANGED <<lru, memList, mapMem, made, keyOf, ev, statCh, logged, gone, ctxDone>>
  BY DEF Clear, entries
<1>3. /\ made' \in 0..MaxEntries /\ items' \in [Key -> (1..made') \cup {Nil}]
      /\ mem' \in [Shard -> Int] /\ lru' \in [Shard -> Seq(1..made')]
      /\ keyOf' \in [Entry -> Key \cup {Nil}] /\ \A e \in 1..made' : keyOf'[e] \in Key
      /\ clears' \in Nat /\ ctxDone' \in BOOLEAN
  BY <1>1, <1>2 DEF TypeOK
<1>. QED BY <1>2, <1>3, ClientSteps

LEMMA CancelStep == ASSUME ShardsInv, Cancel PROVE ShardsInv'
<1>1. TypeOK
  BY DEF ShardsInv
<1>2. /\ ctxDone' = TRUE
      /\ UNCHANGED <<items, mem, lru, memList, mapMem, made, keyOf, ev, statCh, logged,
                     gone, clears>>
  BY DEF Cancel, entries
<1>3. /\ made' \in 0..MaxEntries /\ items' \in [Key -> (1..made') \cup {Nil}]
      /\ mem' \in [Shard -> Int] /\ lru' \in [Shard -> Seq(1..made')]
      /\ keyOf' \in [Entry -> Key \cup {Nil}] /\ \A e \in 1..made' : keyOf'[e] \in Key
      /\ clears' \in Nat /\ ctxDone' \in BOOLEAN
  BY <1>1, <1>2 DEF TypeOK
<1>. QED BY <1>2, <1>3, ClientSteps

\* What the evictor does on its way leaves the shards alone.
LEMMA WayStep ==
    ASSUME ShardsInv, Keep, UNCHANGED <<logged, gone>>,
           memList' \in Seq(Shard), AllShards', mapMem' \in Int,
           ev' \in EvType, PassShape', statCh' \in Seq(Figures), StatsHonest'
    PROVE  ShardsInv'
<1>1. TypeOK'
  BY DEF ShardsInv, TypeOK, Keep, entries, EvType
<1>. QED BY <1>1 DEF ShardsInv

LEMMA EvTickStep == ASSUME ShardsInv, EvTick PROVE ShardsInv'
<1>1. TypeOK /\ AllShards /\ PassShape /\ StatsHonest
  BY DEF ShardsInv
<1>2. /\ ev.pc = "wait" /\ ev.stat = None /\ ev' = [Rest EXCEPT !.pc = "outer"]
      /\ Keep /\ UNCHANGED <<memList, mapMem, statCh, logged, gone>>
  BY <1>1 DEF EvTick, EvAt, PassShape
<1>3. ev' \in EvType /\ ev'.pc = "outer" /\ ev'.stat = None
  BY <1>2, FiguresIs DEF EvType, Rest
<1>4. PassShape' /\ AllShards'
  BY <1>1, <1>2, <1>3 DEF PassShape, AllShards, Distinct, Elems
<1>5. StatsHonest'
  BY <1>1, <1>2, <1>3 DEF StatsHonest, Plus, Total
<1>6. memList' \in Seq(Shard) /\ mapMem' \in Int /\ statCh' \in Seq(Figures)
  BY <1>1, <1>2 DEF TypeOK
<1>. QED BY <1>2, <1>3, <1>4, <1>5, <1>6, WayStep

\* Where the walk goes from one place to the next, the pass's figures stay.
LEMMA WalkStep ==
    ASSUME ShardsInv, Keep, UNCHANGED <<statCh, logged, gone>>,
           memList' \in Seq(Shard), AllShards', mapMem' \in Int,
           ev' \in EvType, PassShape', ev.pc # "stopped", ev'.stat = ev.stat
    PROVE  ShardsInv'
<1>1. StatsHonest'
  BY DEF ShardsInv, StatsHonest, Plus, Total
<1>2. statCh' \in Seq(Figures)
  BY DEF ShardsInv, TypeOK
<1>. QED BY <1>1, <1>2, WayStep

LEMMA EvOuterStep == ASSUME ShardsInv, EvOuter PROVE ShardsInv'
<1>1. TypeOK /\ AllShards /\ PassShape
  BY DEF ShardsInv
<1>2. /\ ev.pc = "outer" /\ mapMem' = RealMem
      /\ Keep /\ UNCHANGED <<memList, statCh, logged, gone>>
  BY DEF EvOuter, EvAt
<1>3. ev \in EvType /\ RealMem \in Int
  BY <1>1, RealMemInt DEF TypeOK, EvType
<1>4. \/ ev' = [ev EXCEPT !.pc = "pick"]
      \/ ev' = [ev EXCEPT !.pc = "send"]
      \/ ev.stat = None /\ ev' = Rest
  BY DEF EvOuter
<1>5. ev' \in EvType /\ ev'.pc \in {"pick", "send", "wait"} /\ ev'.stat = ev.stat
      /\ (ev'.pc = "wait" => ev'.stat = None)
  <2>1. CASE ev' = [ev EXCEPT !.pc = "pick"]
    BY <1>3, <2>1 DEF EvType
  <2>2. CASE ev' = [ev EXCEPT !.pc = "send"]
    BY <1>3, <2>2 DEF EvType
  <2>3. CASE ev.stat = None /\ ev' = Rest
    BY <2>3, EvIs
  <2>. QED BY <1>4, <2>1, <2>2, <2>3
<1>6. PassShape' /\ AllShards'
  BY <1>1, <1>2, <1>5 DEF PassShape, AllShards, Distinct, Elems
<1>7. memList' \in Seq(Shard) /\ mapMem' \in Int
  BY <1>1, <1>2, <1>3 DEF TypeOK
<1>. QED BY <1>2, <1>5, <1>6, <1>7, WalkStep

LEMMA EvInnerStep == ASSUME ShardsInv, EvInner PROVE ShardsInv'
<1>1. TypeOK /\ AllShards /\ PassShape
  BY DEF ShardsInv
<1>2. /\ ev.pc = "inner" /\ mapMem' = RealMem
      /\ Keep /\ UNCHANGED <<memList, statCh, logged, gone>>
  BY DEF EvInner, EvAt
<1>3. ev \in EvType /\ RealMem \in Int /\ ev.shard \in Shard
  BY <1>1, <1>2, RealMemInt DEF TypeOK, EvType, PassShape
<1>4. \/ ev' = [ev EXCEPT !.pc = "remove"]
      \/ ev' = [ev EXCEPT !.pc = "outer"]
  BY DEF EvInner
<1>5. ev' \in EvType /\ ev'.pc \in {"remove", "outer"} /\ ev'.stat = ev.stat
      /\ ev'.shard \in Shard
  BY <1>3, <1>4 DEF EvType
<1>6. PassShape' /\ AllShards'
  BY <1>1, <1>2, <1>5 DEF PassShape, AllShards, Distinct, Elems
<1>7. memList' \in Seq(Shard) /\ mapMem' \in Int
  BY <1>1, <1>2, <1>3 DEF TypeOK
<1>. QED BY <1>2, <1>5, <1>6, <1>7, WalkStep

\* Sorting leaves the balancer every shard, once.
LEMMA RebalancedIs ==
    ASSUME TypeOK, AllShards
    PROVE  /\ Rebalanced \in Seq(Shard) /\ Distinct(Rebalanced) /\ Elems(Rebalanced) = Shard
           /\ Sorted(Rebalanced, ByWeight(memList, mem, Shard))
<1>. DEFINE O == ByWeight(memList, mem, Shard)
<1>1. memList \in Seq(Shard) /\ mem \in [Shard -> Int] /\ Distinct(memList)
      /\ Elems(memList) = Shard
  BY DEF TypeOK, AllShards
<1>2. Rebalanced \in Seq(Shard) /\ Sorted(Rebalanced, O) /\ Elems(Rebalanced) = Shard
  BY <1>1, SortSorts DEF Rebalanced
<1>3. \A u, v : ~ (<<u, v>> \in O /\ <<v, u>> \in O)
  BY <1>1, ByWeightOrders
<1>. HIDE DEF O
<1>4. Distinct(Rebalanced)
  <2>. SUFFICES ASSUME NEW x \in 1..Len(Rebalanced), NEW y \in 1..Len(Rebalanced),
                      Rebalanced[x] = Rebalanced[y], x # y
               PROVE  FALSE
    BY DEF Distinct
  <2>1. Len(Rebalanced) \in Nat
    BY <1>2, LenProperties
  <2>2. x < y \/ y < x
    BY <2>1
  <2>3. <<Rebalanced[x], Rebalanced[y]>> \in O \/ <<Rebalanced[y], Rebalanced[x]>> \in O
    BY <1>2, <2>2 DEF Sorted
  <2>. QED BY <1>3, <2>3
<1>. QED BY <1>2, <1>4 DEF O

LEMMA EvPickStep == ASSUME ShardsInv, EvPick PROVE ShardsInv'
<1>1. TypeOK /\ AllShards /\ PassShape
  BY DEF ShardsInv
<1>. DEFINE again == ev.so + 1 >= Fat
            so    == IF again THEN 0 ELSE ev.so + 1
            s     == IF so < Len(memList') THEN memList'[so + 1] ELSE Nil
<1>2. /\ ev.pc = "pick" /\ memList' = (IF again THEN Rebalanced ELSE memList)
      /\ Keep /\ UNCHANGED <<mapMem, statCh, logged, gone>>
  BY DEF EvPick, EvAt
<1>3. ev' = IF s = Nil \/ (s # Nil /\ lru[s] = <<>>)
            THEN [ev EXCEPT !.pc = "outer", !.so = so]
            ELSE [ev EXCEPT !.pc = "inner", !.so = so, !.shard = s, !.off = 0]
  BY DEF EvPick
<1>4. ev \in EvType /\ ev.so \in Nat /\ so \in Nat
  BY <1>1, ShardsAssumption DEF TypeOK, EvType
<1>5. memList' \in Seq(Shard) /\ AllShards'
  <2>1. Rebalanced \in Seq(Shard) /\ Distinct(Rebalanced) /\ Elems(Rebalanced) = Shard
    BY <1>1, RebalancedIs
  <2>2. memList \in Seq(Shard) /\ Distinct(memList) /\ Elems(memList) = Shard
    BY <1>1 DEF TypeOK, AllShards
  <2>3. memList' = Rebalanced \/ memList' = memList
    BY <1>2
  <2>4. memList' \in Seq(Shard) /\ Distinct(memList') /\ Elems(memList') = Shard
    <3>. HIDE DEF again, so, s
    <3>. QED BY <2>1, <2>2, <2>3
  <2>. QED BY <2>4 DEF AllShards, Distinct, Elems
<1>6. s \in Shard \cup {Nil}
  <2>1. Len(memList') \in Nat /\ \A x \in 1..Len(memList') : memList'[x] \in Shard
    BY <1>5, LenProperties, ElementOfSeq
  <2>2. so < Len(memList') => so + 1 \in 1..Len(memList')
    <3>. HIDE DEF so
    <3>. QED BY <1>4, <2>1
  <2>. HIDE DEF so
  <2>. QED BY <2>1, <2>2
<1>. HIDE DEF so, s, again
<1>7. ev' \in EvType /\ ev'.pc \in {"outer", "inner"} /\ ev'.stat = ev.stat
      /\ (ev'.pc = "inner" => ev'.shard \in Shard)
  <2>1. CASE ev' = [ev EXCEPT !.pc = "outer", !.so = so]
    BY <1>4, <2>1 DEF EvType
  <2>2. CASE s \in Shard /\ ev' = [ev EXCEPT !.pc = "inner", !.so = so, !.shard = s, !.off = 0]
    BY <1>4, <2>2 DEF EvType
  <2>. QED BY <1>3, <1>6, <2>1, <2>2
<1>8. PassShape'
  BY <1>7 DEF PassShape
<1>9. mapMem' \in Int
  BY <1>1, <1>2 DEF TypeOK
<1>. QED BY <1>2, <1>5, <1>7, <1>8, <1>9, WalkStep

LEMMA EvRemoveStep == ASSUME ShardsInv, EvRemove PROVE ShardsInv'
<1>1. TypeOK /\ AllShards /\ PassShape /\ StatsHonest
  BY DEF ShardsInv
<1>. DEFINE s == ev.shard
            e == lru[s][ev.off + 1]
            k == keyOf[e]
            hit == IF items[k] = Nil THEN None ELSE [items |-> 1, freed |-> WeightOf[items[k]]]
<1>2. /\ ev.pc = "remove"
      /\ UNCHANGED <<memList, mapMem, made, keyOf, statCh, logged, clears, ctxDone>>
  BY DEF EvRemove, EvAt, entries
<1>3. ev \in EvType /\ s \in Shard /\ ev.off \in Nat /\ ev.stat \in Figures
  BY <1>1, <1>2, EvIs DEF TypeOK, EvType, PassShape
<1>4. CASE ev.off >= Len(lru[s])
  <2>1. ev' = [ev EXCEPT !.pc = "outer"] /\ UNCHANGED <<lru, items, mem, gone>>
    BY <1>4 DEF EvRemove
  <2>2. ev' \in EvType /\ ev'.pc = "outer" /\ ev'.stat = ev.stat
    BY <1>3, <2>1 DEF EvType
  <2>. HIDE DEF s, e, k, hit
  <2>3. TypeOK'
    BY <1>1, <1>2, <2>1, <2>2 DEF TypeOK, EvType
  <2>4. AllShards' /\ PassShape' /\ StatsHonest'
    BY <1>1, <1>2, <2>1, <2>2 DEF AllShards, Distinct, Elems, PassShape, StatsHonest, Plus, Total
  <2>. QED BY <2>3, <2>4 DEF ShardsInv
<1>5. CASE ~ (ev.off >= Len(lru[s]))
  <2>1. lru[s] \in Seq(1..made) /\ Len(lru[s]) \in Nat
    BY <1>1, <1>3, LenProperties DEF TypeOK
  <2>2. ev.off + 1 \in 1..Len(lru[s])
    <3>. HIDE DEF s
    <3>. QED BY <1>3, <1>5, <2>1
  <2>3. e \in 1..made
    <3>1. \A x \in 1..Len(lru[s]) : lru[s][x] \in 1..made
      <4>. HIDE DEF s
      <4>. QED BY <2>1, ElementOfSeq
    <3>. QED BY <2>2, <3>1
  <2>4. k \in Key
    <3>. HIDE DEF e
    <3>. QED BY <1>1, <2>3 DEF TypeOK
  <2>5. items[k] \in (1..made) \cup {Nil}
    <3>. HIDE DEF k
    <3>. QED BY <1>1, <2>4 DEF TypeOK
  <2>6. hit \in Figures /\ hit.freed \in Int
    <3>1. CASE items[k] = Nil
      BY <3>1, FiguresIs
    <3>2. CASE items[k] # Nil
      <4>1. items[k] \in Entry
        <5>. HIDE DEF k
        <5>. QED BY <1>1, <2>5, <3>2, ShardsAssumption DEF TypeOK, Entry
      <4>2. WeightOf[items[k]] \in Int
        <5>. HIDE DEF k
        <5>. QED BY <4>1, ShardsAssumption
      <4>. HIDE DEF k
      <4>. QED BY <3>2, <4>2, FiguresIs
    <3>. QED BY <3>1, <3>2
  <2>7. /\ lru' = [lru EXCEPT ![s] = RemoveAt(lru[s], ev.off + 1)]
        /\ items' = [items EXCEPT ![k] = Nil]
        /\ mem' = [mem EXCEPT ![s] = mem[s] - hit.freed]
        /\ ev' = [ev EXCEPT !.pc = "inner", !.off = ev.off + 1, !.stat = Plus(ev.stat, hit)]
        /\ gone' = Plus(gone, hit)
    BY <1>5 DEF EvRemove
  <2>8. RemoveAt(lru[s], ev.off + 1) \in Seq(1..made)
    <3>. HIDE DEF s
    <3>. QED BY <2>1, <2>2, RemoveAtSeq
  <2>. HIDE DEF s, e, k, hit
  <2>9. Plus(ev.stat, hit) \in Figures /\ gone' \in Figures
    BY <1>1, <1>3, <2>6, <2>7, FiguresIs DEF TypeOK
  <2>10. ev' \in EvType /\ ev'.pc = "inner" /\ ev'.stat = Plus(ev.stat, hit)
         /\ ev'.shard \in Shard
    <3>. DEFINE d == Plus(ev.stat, hit)
    <3>1. d \in Figures /\ ev.off + 1 \in Nat /\ ev.shard \in Shard
      BY <1>3, <2>9 DEF s
    <3>2. ev' = [ev EXCEPT !.pc = "inner", !.off = ev.off + 1, !.stat = d]
      BY <2>7
    <3>. HIDE DEF d
    <3>3. ev' \in EvType /\ ev'.pc = "inner" /\ ev'.stat = d /\ ev'.shard \in Shard
      BY <1>3, <3>1, <3>2 DEF EvType
    <3>. QED BY <3>3 DEF d
  <2>11. TypeOK'
    <3>1. lru' \in [Shard -> Seq(1..made)]
      BY <1>1, <2>7, <2>8 DEF TypeOK
    <3>2. items' \in [Key -> (1..made) \cup {Nil}]
      BY <1>1, <2>7 DEF TypeOK
    <3>3. mem' \in [Shard -> Int]
      <4>1. mem \in [Shard -> Int]
        BY <1>1 DEF TypeOK
      <4>2. mem[s] - hit.freed \in Int
        BY <1>3, <2>6, <4>1
      <4>. QED BY <2>7, <4>1, <4>2
    <3>. QED BY <1>1, <1>2, <2>9, <2>10, <3>1, <3>2, <3>3 DEF TypeOK, EvType
  <2>12. AllShards' /\ PassShape'
    BY <1>1, <1>2, <2>10 DEF AllShards, Distinct, Elems, PassShape
  <2>13. StatsHonest'
    <3>. DEFINE sent == Plus(logged, Total(statCh))
    <3>1. Total(statCh) \in Figures
      BY <1>1, TotalType DEF TypeOK
    <3>2. sent \in Figures
      BY <1>1, <3>1, FiguresIs DEF TypeOK
    <3>3. Plus(sent, ev.stat) = gone
      BY <1>1, <1>2 DEF StatsHonest
    <3>4. Plus(logged', Total(statCh')) = sent
      BY <1>2
    <3>5. Plus(sent, ev'.stat) = gone'
      <4>. HIDE DEF sent
      <4>1. Plus(Plus(sent, ev.stat), hit) = Plus(sent, Plus(ev.stat, hit))
        BY <1>3, <2>6, <3>2, PlusLaws
      <4>. QED BY <2>7, <2>10, <3>3, <4>1
    <3>6. Plus(Plus(logged', Total(statCh')), ev'.stat) = gone'
      BY <3>4, <3>5
    <3>. QED BY <3>6 DEF StatsHonest, Plus, Total
  <2>. QED BY <2>11, <2>12, <2>13 DEF ShardsInv
<1>. QED BY <1>4, <1>5

LEMMA EvSendStep == ASSUME ShardsInv, EvSend PROVE ShardsInv'
<1>1. TypeOK /\ AllShards /\ PassShape /\ StatsHonest
  BY DEF ShardsInv
<1>2. /\ ev.pc = "send" /\ statCh' = Append(statCh, ev.stat) /\ ev' = Rest
      /\ Keep /\ UNCHANGED <<memList, mapMem, logged, gone>>
  BY DEF EvSend, EvAt
<1>3. /\ ev.stat \in Figures /\ statCh \in Seq(Figures) /\ logged \in Figures
      /\ Total(statCh) \in Figures
  BY <1>1, EvIs, TotalType DEF TypeOK, EvType
<1>4. ev' \in EvType /\ ev'.pc = "wait" /\ ev'.stat = None
  BY <1>2, EvIs
<1>5. statCh' \in Seq(Figures) /\ Total(statCh') = Plus(Total(statCh), ev.stat)
  BY <1>2, <1>3, TotalAppend, AppendProperties
<1>6. Plus(Plus(logged', Total(statCh')), ev'.stat) = gone'
  <2>1. Plus(Plus(logged, Total(statCh)), ev.stat) = gone
    BY <1>1, <1>2 DEF StatsHonest
  <2>2. Plus(logged, Plus(Total(statCh), ev.stat)) = gone
    BY <1>3, <2>1, PlusLaws
  <2>3. Plus(logged, Plus(Total(statCh), ev.stat)) \in Figures
    BY <1>3, FiguresIs
  <2>4. Plus(Plus(logged, Plus(Total(statCh), ev.stat)), None) = gone
    BY <2>2, <2>3, PlusLaws
  <2>. QED BY <1>2, <1>4, <1>5, <2>4
<1>7. StatsHonest' /\ PassShape' /\ AllShards'
  BY <1>1, <1>2, <1>4, <1>6 DEF StatsHonest, Plus, Total, PassShape, AllShards, Distinct, Elems
<1>8. memList' \in Seq(Shard) /\ mapMem' \in Int
  BY <1>1, <1>2 DEF TypeOK
<1>. QED BY <1>2, <1>4, <1>5, <1>7, <1>8, WayStep

LEMMA EvStopStep == ASSUME ShardsInv, EvStop PROVE ShardsInv'
<1>1. TypeOK /\ AllShards
  BY DEF ShardsInv
<1>2. /\ ev' = [Rest EXCEPT !.pc = "stopped"]
      /\ Keep /\ UNCHANGED <<memList, mapMem, statCh, logged, gone>>
  BY DEF EvStop
<1>3. ev' \in EvType /\ ev'.pc = "stopped"
  BY <1>2, FiguresIs DEF EvType, Rest
<1>4. PassShape' /\ AllShards' /\ StatsHonest'
  BY <1>1, <1>2, <1>3 DEF PassShape, AllShards, Distinct, Elems, StatsHonest
<1>5. memList' \in Seq(Shard) /\ mapMem' \in Int /\ statCh' \in Seq(Figures)
  BY <1>1, <1>2 DEF TypeOK
<1>. QED BY <1>2, <1>3, <1>4, <1>5, WayStep

LEMMA LogStep == ASSUME ShardsInv, Log PROVE ShardsInv'
<1>1. TypeOK /\ AllShards /\ PassShape /\ StatsHonest
  BY DEF ShardsInv
<1>2. /\ statCh # <<>> /\ logged' = Plus(logged, Head(statCh)) /\ statCh' = Tail(statCh)
      /\ Keep /\ UNCHANGED <<memList, mapMem, ev, gone>>
  BY DEF Log
<1>3. /\ statCh \in Seq(Figures) /\ logged \in Figures /\ Head(statCh) \in Figures
      /\ statCh' \in Seq(Figures)
  BY <1>1, <1>2, HeadTailProperties DEF TypeOK
<1>4. logged' \in Figures /\ Total(statCh') \in Figures
  BY <1>2, <1>3, TotalType, FiguresIs
<1>5. Plus(logged', Total(statCh')) = Plus(logged, Total(statCh))
  <2>1. Total(statCh) = Plus(Head(statCh), Total(statCh'))
    BY <1>2, <1>3, TotalTail
  <2>2. Plus(Plus(logged, Head(statCh)), Total(statCh'))
           = Plus(logged, Plus(Head(statCh), Total(statCh')))
    BY <1>3, <1>4, PlusLaws
  <2>. QED BY <1>2, <2>1, <2>2
<1>6. StatsHonest'
  <2>1. ev'.pc # "stopped" => Plus(Plus(logged', Total(statCh')), ev'.stat) = gone'
    BY <1>1, <1>2, <1>5 DEF StatsHonest
  <2>. QED BY <2>1 DEF StatsHonest, Plus, Total
<1>7. TypeOK'
  BY <1>1, <1>2, <1>3, <1>4 DEF TypeOK, Keep, entries
<1>8. AllShards' /\ PassShape'
  BY <1>1, <1>2 DEF AllShards, Distinct, Elems, PassShape
<1>. QED BY <1>6, <1>7, <1>8 DEF ShardsInv

LEMMA MemTickStep == ASSUME ShardsInv, MemTick PROVE ShardsInv'
<1>1. TypeOK /\ AllShards /\ PassShape /\ StatsHonest
  BY DEF ShardsInv
<1>2. /\ mapMem' = RealMem
      /\ Keep /\ UNCHANGED <<memList, ev, statCh, logged, gone>>
  BY DEF MemTick
<1>3. mapMem' \in Int
  BY <1>1, <1>2, RealMemInt DEF TypeOK
<1>4. TypeOK'
  BY <1>1, <1>2, <1>3 DEF TypeOK, Keep, entries
<1>5. AllShards' /\ PassShape' /\ StatsHonest'
  BY <1>1, <1>2 DEF AllShards, Distinct, Elems, PassShape, StatsHonest, Plus, Total
<1>. QED BY <1>4, <1>5 DEF ShardsInv

LEMMA ShardsStep == ShardsInv /\ [Next]_vars => ShardsInv'
<1>. SUFFICES ASSUME ShardsInv, [Next]_vars PROVE ShardsInv'
  OBVIOUS
<1>1. CASE UNCHANGED vars
  <2>1. TypeOK'
    BY <1>1 DEF ShardsInv, TypeOK, vars, entries
  <2>2. AllShards' /\ PassShape' /\ StatsHonest'
    BY <1>1 DEF ShardsInv, AllShards, Distinct, Elems, PassShape, StatsHonest, Plus, Total, vars
  <2>. QED BY <2>1, <2>2 DEF ShardsInv
<1>2. CASE Next
  <2>1. ASSUME NEW k \in Key, Touch(k) \/ Insert(k) PROVE ShardsInv'
    BY <2>1, TouchStep, InsertStep
  <2>2. CASE EvPass
    BY <2>2, EvOuterStep, EvPickStep, EvInnerStep, EvRemoveStep DEF EvPass
  <2>. QED BY <1>2, <2>1, <2>2, ClearStep, EvTickStep, EvSendStep, EvStopStep, LogStep,
              MemTickStep, CancelStep DEF Next
<1>. QED BY <1>1, <1>2

\* The types; that the lists hold entries which were made, and have a key, is among them.
THEOREM ShardTypes == Spec => []TypeOK
<1>1. ShardsInv => TypeOK
  BY DEF ShardsInv
<1>. QED BY <1>1, InitShardsInv, ShardsStep, PTL DEF Spec

\* Whatever the evictor took out of the map, and what it weighed, is in the pass's figures,
\* in the channel or with the logger, once, while it has not stopped: a miss is not counted,
\* and no figure is lost or counted again however far the logger lags behind.
THEOREM StatsAreHonest == Spec => []StatsHonest
<1>1. ShardsInv => StatsHonest
  BY DEF ShardsInv
<1>. QED BY <1>1, InitShardsInv, ShardsStep, PTL DEF Spec

\* What a rebalance leaves is ByWeight's order.
LEMMA RebalanceIs ==
    ASSUME ShardsInv, EvPick, ev.so + 1 >= Fat, NEW a \in Shard, NEW b \in Shard
    PROVE  Before(memList', a, b)
             <=> mem[a] > mem[b] \/ (mem[a] = mem[b] /\ Before(memList, a, b))
<1>. DEFINE O == ByWeight(memList, mem, Shard)
            l == Rebalanced
<1>1. TypeOK /\ AllShards
  BY DEF ShardsInv
<1>2. memList' = l
  BY DEF EvPick
<1>3. l \in Seq(Shard) /\ Elems(l) = Shard /\ Sorted(l, O)
  BY <1>1, RebalancedIs
<1>4. \A u, v : ~ (<<u, v>> \in O /\ <<v, u>> \in O)
  BY <1>1, ByWeightOrders DEF TypeOK, AllShards
<1>5. <<a, b>> \in O <=> mem[a] > mem[b] \/ (mem[a] = mem[b] /\ Before(memList, a, b))
  BY DEF ByWeight
<1>. HIDE DEF O, l
<1>6. DOMAIN l = 1..Len(l) /\ Len(l) \in Nat
  BY <1>3, LenProperties
<1>7. Before(l, a, b) => <<a, b>> \in O
  BY <1>3, <1>6 DEF Before, Sorted
<1>8. <<a, b>> \in O => Before(l, a, b)
  <2>. SUFFICES ASSUME <<a, b>> \in O PROVE Before(l, a, b)
    OBVIOUS
  <2>1. PICK x \in 1..Len(l) : l[x] = a
    BY <1>3 DEF Elems
  <2>2. PICK y \in 1..Len(l) : l[y] = b
    BY <1>3 DEF Elems
  <2>3. x # y
    BY <1>4, <2>1, <2>2
  <2>4. ~ (y < x)
    BY <1>3, <1>4, <2>1, <2>2 DEF Sorted
  <2>5. x < y
    BY <1>6, <2>3, <2>4
  <2>. QED BY <1>6, <2>1, <2>2, <2>5 DEF Before
<1>9. Before(memList', a, b) <=> Before(l, a, b)
  BY <1>2 DEF Before
<1>. QED BY <1>5, <1>7, <1>8, <1>9

\* What the merge sort by relinking makes of the balancer's list is what a stable sort by
\* weight makes of it, for any number of shards and any weights.
THEOREM RebalanceIsStable == Spec => RebalanceSorts
<1>. DEFINE Stable == EvPick /\ ev.so + 1 >= Fat => \A a, b \in Shard :
          Before(memList', a, b) <=>
             \/ mem[a] > mem[b]
             \/ mem[a] = mem[b] /\ Before(memList, a, b)
<1>1. ShardsInv => Stable
  BY RebalanceIs
<1>. QED BY <1>1, InitShardsInv, ShardsStep, PTL DEF Spec, RebalanceSorts
===============================================================================
