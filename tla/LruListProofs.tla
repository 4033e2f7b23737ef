----------------------------- MODULE LruListProofs -----------------------------
(***************************************************************************)
(* Proofs about LruList, for any number of elements and goroutines.        *)
(*                                                                         *)
(* The argument: a ring is described by the sequence s a walk visits; each *)
(* operation of the ring, applied to an element the discipline allows,     *)
(* yields the ring of another sequence, which the lemmas below exhibit.    *)
(***************************************************************************)
EXTENDS LruList, FiniteSetTheorems, SequenceTheorems, WellFoundedInduction, TLAPS

\* The fields of a list after each operation, one function update at a time.
LEMMA PushFrontFields ==
    ASSUME NEW l \in RingType, NEW e \in Elem, l.next[Root] \in Node
    PROVE  /\ PushFront(l, e) \in RingType
           /\ PushFront(l, e).len = l.len + 1
           /\ \A m \in Node : PushFront(l, e).next[m] =
                IF m = Root THEN e ELSE IF m = e THEN l.next[Root] ELSE l.next[m]
           /\ \A m \in Node : PushFront(l, e).prev[m] =
                IF m = l.next[Root] THEN e ELSE IF m = e THEN Root ELSE l.prev[m]
BY RingAssumption DEF PushFront, LinkFront, RingType, Node

LEMMA PushBackFields ==
    ASSUME NEW l \in RingType, NEW e \in Elem, l.prev[Root] \in Node
    PROVE  /\ PushBack(l, e) \in RingType
           /\ PushBack(l, e).len = l.len + 1
           /\ \A m \in Node : PushBack(l, e).prev[m] =
                IF m = Root THEN e ELSE IF m = e THEN l.prev[Root] ELSE l.prev[m]
           /\ \A m \in Node : PushBack(l, e).next[m] =
                IF m = l.prev[Root] THEN e ELSE IF m = e THEN Root ELSE l.next[m]
BY RingAssumption DEF PushBack, LinkBack, RingType, Node

LEMMA RemoveFields ==
    ASSUME NEW l \in RingType, NEW e \in Elem, l.prev[e] \in Node, l.next[e] \in Node
    PROVE  /\ Remove(l, e) \in RingType
           /\ Remove(l, e).len = l.len - 1
           /\ \A m \in Node : Remove(l, e).next[m] =
                IF m = l.prev[e] THEN l.next[e] ELSE l.next[m]
           /\ \A m \in Node : Remove(l, e).prev[m] =
                IF m = l.next[e] THEN l.prev[e] ELSE l.prev[m]
BY RingAssumption DEF Remove, Detach, RingType, Node
-------------------------------------------------------------------------------
\* The elements of a sequence given as a function on 1..n.
Members(n, s) == {s[i] : i \in 1..n}

\* Such a sequence with e before it, with e after it, and without its k-th element.
Before(n, s, e) == [i \in 1..(n + 1) |-> IF i = 1 THEN e ELSE s[i - 1]]
After(n, s, e) == [i \in 1..(n + 1) |-> IF i = n + 1 THEN e ELSE s[i]]
Cut(n, s, k) == [i \in 1..(n - 1) |-> IF i < k THEN s[i] ELSE s[i + 1]]

\* The nodes of a ring are pairwise different, and linked as their positions say.
LEMMA RingLinks ==
    ASSUME NEW l \in RingType, l.len \in Nat, NEW s \in [1..l.len -> Elem], RingOf(l, s)
    PROVE  /\ \A k \in Int : NodeAt(l, s, k) \in Node
           /\ \A k \in 1..l.len : NodeAt(l, s, k) = s[k]
           /\ NodeAt(l, s, 0) = Root /\ NodeAt(l, s, l.len + 1) = Root
           /\ \A i, j \in 0..l.len : NodeAt(l, s, i) = NodeAt(l, s, j) => i = j
           /\ \A k \in 0..l.len : l.next[NodeAt(l, s, k)] = NodeAt(l, s, k + 1)
           /\ \A k \in 0..l.len : l.prev[NodeAt(l, s, k + 1)] = NodeAt(l, s, k)
           /\ l.next[Root] = NodeAt(l, s, 1) /\ l.prev[Root] = NodeAt(l, s, l.len)
<1>1. \A k \in Int : NodeAt(l, s, k) \in Node
  BY DEF NodeAt, Node
<1>2. /\ \A k \in 1..l.len : NodeAt(l, s, k) = s[k]
      /\ NodeAt(l, s, 0) = Root /\ NodeAt(l, s, l.len + 1) = Root
  BY DEF NodeAt
<1>3. \A k \in 0..l.len : /\ l.next[NodeAt(l, s, k)] = NodeAt(l, s, k + 1)
                          /\ l.prev[NodeAt(l, s, k + 1)] = NodeAt(l, s, k)
  BY DEF RingOf
<1>4. \A i, j \in 0..l.len : NodeAt(l, s, i) = NodeAt(l, s, j) => i = j
  BY RingAssumption DEF RingOf, NodeAt
<1>. QED BY <1>1, <1>2, <1>3, <1>4

\* PushFront puts e before the sequence.
LEMMA PushFrontRing ==
    ASSUME NEW l \in RingType, l.len \in Nat, NEW s \in [1..l.len -> Elem], RingOf(l, s),
           NEW e \in Elem, e \notin Members(l.len, s)
    PROVE  \E t \in [1..(l.len + 1) -> Elem] :
              /\ RingOf(PushFront(l, e), t) /\ Members(l.len + 1, t) = Members(l.len, s) \cup {e}
              /\ t = Before(l.len, s, e)
<1>. DEFINE t == [i \in 1..(l.len + 1) |-> IF i = 1 THEN e ELSE s[i - 1]]
           r == PushFront(l, e)
<1>1. t \in [1..(l.len + 1) -> Elem]
  OBVIOUS
<1>2. Members(l.len + 1, t) = Members(l.len, s) \cup {e}
  <2>1. ASSUME NEW x \in Members(l.len, s) PROVE x \in Members(l.len + 1, t)
    <3>1. PICK i \in 1..l.len : x = s[i]
      BY <2>1 DEF Members
    <3>2. i + 1 \in 1..(l.len + 1) /\ t[i + 1] = x
      BY <3>1
    <3>. HIDE DEF t
    <3>. QED BY <3>2 DEF Members
  <2>2. ASSUME NEW x \in Members(l.len + 1, t) PROVE x \in Members(l.len, s) \cup {e}
    <3>1. PICK i \in 1..(l.len + 1) : x = t[i]
      BY <2>2 DEF Members
    <3>2. x = e \/ (i - 1 \in 1..l.len /\ x = s[i - 1])
      BY <3>1
    <3>. HIDE DEF t
    <3>. QED BY <3>2 DEF Members
  <2>3. e \in Members(l.len + 1, t)
    <3>1. 1 \in 1..(l.len + 1) /\ t[1] = e
      OBVIOUS
    <3>. HIDE DEF t
    <3>. QED BY <3>1 DEF Members
  <2>. QED BY <2>1, <2>2, <2>3
<1>3. /\ r.len = l.len + 1
      /\ \A m \in Node : r.next[m] =
            IF m = Root THEN e ELSE IF m = e THEN l.next[Root] ELSE l.next[m]
      /\ \A m \in Node : r.prev[m] =
            IF m = l.next[Root] THEN e ELSE IF m = e THEN Root ELSE l.prev[m]
  BY RingLinks, PushFrontFields
<1>4. ASSUME NEW i \in 0..(l.len + 2)
      PROVE NodeAt(r, t, i) = IF i = 1 THEN e ELSE IF i = 0 THEN Root ELSE NodeAt(l, s, i - 1)
  BY <1>3 DEF NodeAt
<1>5. \A i, j \in 1..r.len : t[i] = t[j] => i = j
  BY <1>3 DEF RingOf, Members
<1>6. ASSUME NEW i \in 0..r.len
      PROVE  /\ r.next[NodeAt(r, t, i)] = NodeAt(r, t, i + 1)
             /\ r.prev[NodeAt(r, t, i + 1)] = NodeAt(r, t, i)
  <2>0. /\ \A k \in 0..(l.len + 1) : NodeAt(l, s, k) # e
        /\ e # Root /\ e \in Node /\ Root \in Node
    BY RingAssumption DEF Members, NodeAt, Node
  <2>. HIDE DEF t, r
  <2>1. CASE i = 0
    BY <2>0, <2>1, <1>3, <1>4, RingLinks
  <2>2. CASE i = 1
    BY <2>0, <2>2, <1>3, <1>4, RingLinks
  <2>3. CASE i > 1
    <3>1. /\ NodeAt(r, t, i) = NodeAt(l, s, i - 1) /\ NodeAt(r, t, i + 1) = NodeAt(l, s, i)
          /\ i - 1 \in 1..l.len /\ i \in 1..(l.len + 1) /\ (i - 1) + 1 = i
      BY <2>3, <1>3, <1>4
    <3>2. /\ l.next[NodeAt(l, s, i - 1)] = NodeAt(l, s, i)
          /\ l.prev[NodeAt(l, s, i)] = NodeAt(l, s, i - 1)
          /\ NodeAt(l, s, i - 1) # Root /\ NodeAt(l, s, i) # NodeAt(l, s, 1)
      BY <3>1, RingLinks
    <3>. QED BY <3>1, <3>2, <2>0, <1>3, RingLinks
  <2>. QED BY <2>1, <2>2, <2>3, <1>3
<1>8. t = Before(l.len, s, e)
  BY DEF Before
<1>. HIDE DEF t, r
<1>7. RingOf(r, t)
  BY <1>5, <1>6 DEF RingOf
<1>. QED BY <1>1, <1>2, <1>7, <1>8 DEF r
\* PushBack puts e after the sequence.
LEMMA PushBackRing ==
    ASSUME NEW l \in RingType, l.len \in Nat, NEW s \in [1..l.len -> Elem], RingOf(l, s),
           NEW e \in Elem, e \notin Members(l.len, s)
    PROVE  \E t \in [1..(l.len + 1) -> Elem] :
              /\ RingOf(PushBack(l, e), t) /\ Members(l.len + 1, t) = Members(l.len, s) \cup {e}
              /\ t = After(l.len, s, e)
<1>. DEFINE t == [i \in 1..(l.len + 1) |-> IF i = l.len + 1 THEN e ELSE s[i]]
           r == PushBack(l, e)
<1>1. t \in [1..(l.len + 1) -> Elem]
  OBVIOUS
<1>2. Members(l.len + 1, t) = Members(l.len, s) \cup {e}
  <2>1. /\ \A i \in 1..l.len : i \in 1..(l.len + 1) /\ t[i] = s[i]
        /\ l.len + 1 \in 1..(l.len + 1) /\ t[l.len + 1] = e
        /\ \A i \in 1..(l.len + 1) : i = l.len + 1 \/ i \in 1..l.len
    OBVIOUS
  <2>. HIDE DEF t
  <2>. QED BY <2>1 DEF Members
<1>3. /\ r.len = l.len + 1
      /\ \A m \in Node : r.prev[m] =
            IF m = Root THEN e ELSE IF m = e THEN l.prev[Root] ELSE l.prev[m]
      /\ \A m \in Node : r.next[m] =
            IF m = l.prev[Root] THEN e ELSE IF m = e THEN Root ELSE l.next[m]
  BY RingLinks, PushBackFields
<1>4. \A i \in 0..(l.len + 2) :
         NodeAt(r, t, i) = IF i = l.len + 1 THEN e
                           ELSE IF i = l.len + 2 THEN Root ELSE NodeAt(l, s, i)
  BY <1>3 DEF NodeAt
<1>5. \A i, j \in 1..r.len : t[i] = t[j] => i = j
  BY <1>3 DEF RingOf, Members
<1>6. ASSUME NEW i \in 0..r.len
      PROVE  /\ r.next[NodeAt(r, t, i)] = NodeAt(r, t, i + 1)
             /\ r.prev[NodeAt(r, t, i + 1)] = NodeAt(r, t, i)
  <2>0. /\ \A k \in 0..(l.len + 1) : NodeAt(l, s, k) # e
        /\ e # Root /\ e \in Node /\ Root \in Node
    BY RingAssumption DEF Members, NodeAt, Node
  <2>. HIDE DEF t, r
  <2>1. CASE i = l.len + 1
    BY <2>0, <2>1, <1>3, <1>4, RingLinks
  <2>2. CASE i = l.len
    BY <2>0, <2>2, <1>3, <1>4, RingLinks
  <2>3. CASE i < l.len
    <3>1. /\ NodeAt(r, t, i) = NodeAt(l, s, i) /\ NodeAt(r, t, i + 1) = NodeAt(l, s, i + 1)
          /\ i \in 0..l.len /\ i + 1 \in 1..l.len
      BY <2>3, <1>3, <1>4
    <3>2. /\ l.next[NodeAt(l, s, i)] = NodeAt(l, s, i + 1)
          /\ l.prev[NodeAt(l, s, i + 1)] = NodeAt(l, s, i)
          /\ NodeAt(l, s, i) # NodeAt(l, s, l.len) /\ NodeAt(l, s, i + 1) # Root
      BY <2>3, <3>1, RingLinks
    <3>. QED BY <3>1, <3>2, <2>0, <1>3, RingLinks
  <2>. QED BY <2>1, <2>2, <2>3, <1>3
<1>8. t = After(l.len, s, e)
  BY DEF After
<1>. HIDE DEF t, r
<1>7. RingOf(r, t)
  BY <1>5, <1>6 DEF RingOf
<1>. QED BY <1>1, <1>2, <1>7, <1>8 DEF r

\* Remove takes an element out of the sequence.
LEMMA RemoveRing ==
    ASSUME NEW l \in RingType, l.len \in Nat, NEW s \in [1..l.len -> Elem], RingOf(l, s),
           NEW e \in Members(l.len, s)
    PROVE  /\ Remove(l, e) \in RingType /\ l.len - 1 \in Nat
           /\ \E t \in [1..(l.len - 1) -> Elem] :
                 /\ RingOf(Remove(l, e), t) /\ Members(l.len - 1, t) = Members(l.len, s) \ {e}
                 /\ \E k \in 1..l.len : s[k] = e /\ t = Cut(l.len, s, k)
<1>1. PICK k \in 1..l.len : e = s[k]
  BY DEF Members
<1>. DEFINE t == [i \in 1..(l.len - 1) |-> IF i < k THEN s[i] ELSE s[i + 1]]
           r == Remove(l, e)
<1>2. t \in [1..(l.len - 1) -> Elem] /\ l.len - 1 \in Nat
  OBVIOUS
<1>3. Members(l.len - 1, t) = Members(l.len, s) \ {e}
  <2>1. \A i \in 1..l.len : s[i] # e =>
            IF i < k THEN i \in 1..(l.len - 1) /\ t[i] = s[i]
                     ELSE i - 1 \in 1..(l.len - 1) /\ t[i - 1] = s[i]
    BY <1>1
  <2>2. \A i \in 1..(l.len - 1) :
            IF i < k THEN i \in 1..l.len /\ t[i] = s[i] /\ s[i] # e
                     ELSE i + 1 \in 1..l.len /\ t[i] = s[i + 1] /\ s[i + 1] # e
    BY <1>1 DEF RingOf
  <2>. HIDE DEF t
  <2>. QED BY <2>1, <2>2 DEF Members
<1>4. e \in Elem /\ e = NodeAt(l, s, k) /\ k - 1 \in 0..l.len /\ (k - 1) + 1 = k
  BY <1>1 DEF NodeAt
<1>5. /\ l.prev[e] = NodeAt(l, s, k - 1) /\ l.next[e] = NodeAt(l, s, k + 1)
      /\ l.prev[e] \in Node /\ l.next[e] \in Node
  BY <1>4, RingLinks
<1>6. /\ r.len = l.len - 1 /\ r \in RingType
      /\ \A m \in Node : r.next[m] = IF m = l.prev[e] THEN l.next[e] ELSE l.next[m]
      /\ \A m \in Node : r.prev[m] = IF m = l.next[e] THEN l.prev[e] ELSE l.prev[m]
  BY <1>4, <1>5, RemoveFields
<1>7. \A i \in 0..l.len :
         NodeAt(r, t, i) = IF i < k THEN NodeAt(l, s, i) ELSE NodeAt(l, s, i + 1)
  BY <1>6 DEF NodeAt
<1>8. \A i, j \in 1..r.len : t[i] = t[j] => i = j
  BY <1>6 DEF RingOf
<1>9. ASSUME NEW i \in 0..r.len
      PROVE  /\ r.next[NodeAt(r, t, i)] = NodeAt(r, t, i + 1)
             /\ r.prev[NodeAt(r, t, i + 1)] = NodeAt(r, t, i)
  <2>. HIDE DEF t, r
  <2>1. CASE i = k - 1
    <3>1. /\ NodeAt(r, t, i) = NodeAt(l, s, k - 1) /\ NodeAt(r, t, i + 1) = NodeAt(l, s, k + 1)
      BY <2>1, <1>6, <1>7
    <3>. QED BY <3>1, <1>5, <1>6, RingLinks
  <2>2. CASE i < k - 1
    <3>1. /\ NodeAt(r, t, i) = NodeAt(l, s, i) /\ NodeAt(r, t, i + 1) = NodeAt(l, s, i + 1)
          /\ i \in 0..l.len /\ i # k - 1
      BY <2>2, <1>6, <1>7
    <3>2. NodeAt(l, s, i) # NodeAt(l, s, k - 1)
      BY <3>1, <1>4, RingLinks
    <3>3. NodeAt(l, s, i + 1) # NodeAt(l, s, k + 1)
      BY <2>2, <3>1, <1>4, RingLinks
    <3>. QED BY <3>1, <3>2, <3>3, <1>5, <1>6, RingLinks
  <2>3. CASE i > k - 1
    <3>1. /\ NodeAt(r, t, i) = NodeAt(l, s, i + 1) /\ NodeAt(r, t, i + 1) = NodeAt(l, s, i + 2)
          /\ i + 1 \in 1..l.len /\ i + 1 > k /\ (i + 1) + 1 = i + 2
      BY <2>3, <1>6, <1>7
    <3>2. NodeAt(l, s, i + 1) # NodeAt(l, s, k - 1)
      BY <3>1, <1>4, RingLinks
    <3>3. NodeAt(l, s, i + 2) # NodeAt(l, s, k + 1)
      BY <2>3, <3>1, <1>4, RingLinks
    <3>. QED BY SMTT(30), <3>1, <3>2, <3>3, <1>5, <1>6, RingLinks
  <2>. QED BY <2>1, <2>2, <2>3, <1>6
<1>11. t = Cut(l.len, s, k)
  BY DEF Cut
<1>. HIDE DEF t, r
<1>10. RingOf(r, t)
  BY <1>8, <1>9 DEF RingOf
<1>. QED BY <1>1, <1>2, <1>3, <1>6, <1>10, <1>11 DEF r
\* MoveToFront is a Remove and a PushFront that leave the counter alone.
LEMMA MoveIsRemovePush ==
    ASSUME NEW l \in RingType, NEW e
    PROVE  MoveToFront(l, e) = PushFront(Remove(l, e), e)
<1>. DEFINE m == Remove(l, e)
<1>1. m = [next |-> Detach(l, e).next, prev |-> Detach(l, e).prev, len |-> l.len - 1]
  <2>1. Detach(l, e) = [next |-> Detach(l, e).next, prev |-> Detach(l, e).prev, len |-> l.len]
    BY DEF Detach
  <2>2. ASSUME NEW d, d = [next |-> d.next, prev |-> d.prev, len |-> l.len]
        PROVE  [d EXCEPT !.len = d.len - 1] = [next |-> d.next, prev |-> d.prev, len |-> l.len - 1]
    BY <2>2
  <2>. QED BY <2>1, <2>2 DEF Remove
<1>2. LinkFront(m, e) = [next |-> MoveToFront(l, e).next, prev |-> MoveToFront(l, e).prev,
                         len |-> l.len - 1]
  BY <1>1 DEF LinkFront, MoveToFront
<1>3. MoveToFront(l, e) = [next |-> MoveToFront(l, e).next, prev |-> MoveToFront(l, e).prev,
                           len |-> l.len]
  BY DEF LinkFront, MoveToFront, Detach
<1>4. (l.len - 1) + 1 = l.len
  BY DEF RingType
<1>. QED BY <1>2, <1>3, <1>4 DEF PushFront

\* So it takes e to the front of the sequence.
LEMMA MoveToFrontRing ==
    ASSUME NEW l \in RingType, l.len \in Nat, NEW s \in [1..l.len -> Elem], RingOf(l, s),
           NEW e \in Members(l.len, s)
    PROVE  /\ MoveToFront(l, e) \in RingType /\ MoveToFront(l, e).len = l.len
           /\ \E t \in [1..l.len -> Elem] :
                 /\ RingOf(MoveToFront(l, e), t) /\ Members(l.len, t) = Members(l.len, s)
                 /\ \E k \in 1..l.len :
                       s[k] = e /\ t = Before(l.len - 1, Cut(l.len, s, k), e)
<1>. DEFINE m == Remove(l, e)
<1>1. e \in Elem
  BY DEF Members
<1>2. PICK u \in [1..(l.len - 1) -> Elem] :
         /\ RingOf(m, u) /\ Members(l.len - 1, u) = Members(l.len, s) \ {e}
         /\ \E k \in 1..l.len : s[k] = e /\ u = Cut(l.len, s, k)
  BY RemoveRing
<1>3. m \in RingType /\ l.len - 1 \in Nat /\ m.len = l.len - 1
  BY RemoveRing DEF Remove, Detach
<1>4. m.next[Root] \in Node
  BY <1>2, <1>3, RingLinks
<1>5. MoveToFront(l, e) = PushFront(m, e)
  BY MoveIsRemovePush
<1>6. /\ m \in RingType /\ m.len \in Nat /\ u \in [1..m.len -> Elem] /\ RingOf(m, u)
      /\ e \in Elem /\ e \notin Members(m.len, u)
  BY <1>1, <1>2, <1>3
<1>. HIDE DEF m
<1>7. PICK t \in [1..(m.len + 1) -> Elem] :
         /\ RingOf(PushFront(m, e), t) /\ Members(m.len + 1, t) = Members(m.len, u) \cup {e}
         /\ t = Before(m.len, u, e)
  <2>1. \A q \in RingType : q.len \in Nat =>
          \A v \in [1..q.len -> Elem] : RingOf(q, v) => \A x \in Elem : x \notin Members(q.len, v) =>
            \E t \in [1..(q.len + 1) -> Elem] :
               /\ RingOf(PushFront(q, x), t) /\ Members(q.len + 1, t) = Members(q.len, v) \cup {x}
               /\ t = Before(q.len, v, x)
    BY PushFrontRing
  <2>2. \A x \in Elem : x \notin Members(m.len, u) =>
            \E t \in [1..(m.len + 1) -> Elem] :
               /\ RingOf(PushFront(m, x), t) /\ Members(m.len + 1, t) = Members(m.len, u) \cup {x}
               /\ t = Before(m.len, u, x)
    BY <1>6, <2>1
  <2>. QED BY <1>6, <2>2
<1>8. PushFront(m, e) \in RingType /\ PushFront(m, e).len = m.len + 1
  BY <1>1, <1>3, <1>4, PushFrontFields
<1>9. m.len + 1 = l.len /\ Members(m.len, u) \cup {e} = Members(l.len, s)
  BY <1>2, <1>3
<1>10. PICK k \in 1..l.len : s[k] = e /\ u = Cut(l.len, s, k)
  BY <1>2
<1>11. t = Before(l.len - 1, Cut(l.len, s, k), e)
  BY <1>3, <1>7, <1>10
<1>. QED BY <1>5, <1>7, <1>8, <1>9, <1>10, <1>11

\* Together: l is the ring of s, and what an operation makes of s.
Spells(l, s) == l \in RingType /\ l.len \in Nat /\ s \in [1..l.len -> Elem] /\ RingOf(l, s)

LEMMA PushesSpell ==
    ASSUME NEW l, NEW s, Spells(l, s), NEW e \in Elem, e \notin Members(l.len, s)
    PROVE  /\ PushFront(l, e).len = l.len + 1 /\ Spells(PushFront(l, e), Before(l.len, s, e))
           /\ Members(l.len + 1, Before(l.len, s, e)) = Members(l.len, s) \cup {e}
           /\ PushBack(l, e).len = l.len + 1 /\ Spells(PushBack(l, e), After(l.len, s, e))
           /\ Members(l.len + 1, After(l.len, s, e)) = Members(l.len, s) \cup {e}
<1>1. l \in RingType /\ l.len \in Nat /\ s \in [1..l.len -> Elem] /\ RingOf(l, s)
  BY DEF Spells
<1>2. l.next[Root] \in Node /\ l.prev[Root] \in Node
  BY <1>1, RingLinks
<1>3. PICK t \in [1..(l.len + 1) -> Elem] :
         /\ RingOf(PushFront(l, e), t) /\ Members(l.len + 1, t) = Members(l.len, s) \cup {e}
         /\ t = Before(l.len, s, e)
  BY <1>1, PushFrontRing
<1>4. PICK u \in [1..(l.len + 1) -> Elem] :
         /\ RingOf(PushBack(l, e), u) /\ Members(l.len + 1, u) = Members(l.len, s) \cup {e}
         /\ u = After(l.len, s, e)
  BY <1>1, PushBackRing
<1>5. /\ PushFront(l, e) \in RingType /\ PushFront(l, e).len = l.len + 1
      /\ PushBack(l, e) \in RingType /\ PushBack(l, e).len = l.len + 1
  BY <1>1, <1>2, PushFrontFields, PushBackFields
<1>. QED BY <1>1, <1>3, <1>4, <1>5 DEF Spells

LEMMA RemovesSpell ==
    ASSUME NEW l, NEW s, Spells(l, s), NEW e \in Members(l.len, s)
    PROVE  \E k \in 1..l.len :
              /\ s[k] = e
              /\ Remove(l, e).len = l.len - 1 /\ Spells(Remove(l, e), Cut(l.len, s, k))
              /\ Members(l.len - 1, Cut(l.len, s, k)) = Members(l.len, s) \ {e}
<1>1. l \in RingType /\ l.len \in Nat /\ s \in [1..l.len -> Elem] /\ RingOf(l, s)
  BY DEF Spells
<1>2. /\ Remove(l, e) \in RingType /\ l.len - 1 \in Nat
      /\ \E t \in [1..(l.len - 1) -> Elem] :
            /\ RingOf(Remove(l, e), t) /\ Members(l.len - 1, t) = Members(l.len, s) \ {e}
            /\ \E k \in 1..l.len : s[k] = e /\ t = Cut(l.len, s, k)
  BY <1>1, RemoveRing
<1>3. Remove(l, e).len = l.len - 1
  BY DEF Remove, Detach
<1>. QED BY <1>1, <1>2, <1>3 DEF Spells

LEMMA MovesSpell ==
    ASSUME NEW l, NEW s, Spells(l, s), NEW e \in Members(l.len, s)
    PROVE  \E k \in 1..l.len :
              LET t == Before(l.len - 1, Cut(l.len, s, k), e)
              IN  /\ s[k] = e /\ MoveToFront(l, e).len = l.len /\ Spells(MoveToFront(l, e), t)
                  /\ Members(l.len, t) = Members(l.len, s)
<1>1. l \in RingType /\ l.len \in Nat /\ s \in [1..l.len -> Elem] /\ RingOf(l, s)
  BY DEF Spells
<1>2. /\ MoveToFront(l, e) \in RingType /\ MoveToFront(l, e).len = l.len
      /\ \E t \in [1..l.len -> Elem] :
            /\ RingOf(MoveToFront(l, e), t) /\ Members(l.len, t) = Members(l.len, s)
            /\ \E k \in 1..l.len : s[k] = e /\ t = Before(l.len - 1, Cut(l.len, s, k), e)
  BY <1>1, MoveToFrontRing
<1>. QED BY <1>1, <1>2 DEF Spells

\* Every set of naturals that is not empty has a least element.
LEMMA LeastNatural ==
    ASSUME NEW T \in SUBSET Nat, T # {}
    PROVE  \E m \in T : \A j \in T : m <= j
<1>. DEFINE R == OpToRel(<, Nat)
<1>1. IsWellFoundedOn(R, Nat)
  BY NatLessThanWellFounded
<1>2. \A x, y \in Nat : <<x, y>> \in R <=> x < y
  BY DEF OpToRel
<1>. HIDE DEF R
<1>3. PICK m \in T : \A j \in T : ~ (<<j, m>> \in R)
  BY <1>1, WFMin, Zenon
<1>4. ASSUME NEW j \in T PROVE ~ (j < m)
  BY <1>2, <1>3, Zenon
<1>. QED BY <1>4

\* The walk of Next(k) along a ring ends on the element at position k.
LEMMA AtRing ==
    ASSUME NEW l \in RingType, l.len \in Nat, NEW s \in [1..l.len -> Elem], RingOf(l, s),
           NEW k \in 0..(l.len - 1)
    PROVE  At(l, k) = s[k + 1]
<1>. DEFINE step(g) == [i \in 0..k |-> IF i = 0 THEN l.next[Root] ELSE l.next[g[i - 1]]]
           f == [i \in 0..k |-> NodeAt(l, s, i + 1)]
           at == CHOOSE g : g = step(g)
<1>1. f = step(f)
  <2>1. ASSUME NEW i \in 0..k
        PROVE  NodeAt(l, s, i + 1) = IF i = 0 THEN l.next[Root] ELSE l.next[f[i - 1]]
    <3>1. CASE i = 0
      BY <3>1, RingLinks
    <3>2. CASE i # 0
      <4>1. i - 1 \in 0..k /\ f[i - 1] = NodeAt(l, s, i)
        BY <3>2
      <4>2. l.next[NodeAt(l, s, i)] = NodeAt(l, s, i + 1)
        BY RingLinks
      <4>. QED BY <3>2, <4>1, <4>2
    <3>. QED BY <3>1, <3>2
  <2>. QED BY <2>1
<1>2. at = step(at)
  BY <1>1
<1>3. At(l, k) = at[k]
  BY DEF At
<1>. HIDE DEF at
<1>4. ASSUME NEW i \in 0..k PROVE at[i] = IF i = 0 THEN l.next[Root] ELSE l.next[at[i - 1]]
  BY <1>2
<1>5. \A i \in 0..k : at[i] = NodeAt(l, s, i + 1)
  <2>. DEFINE T == {i \in 0..k : at[i] # NodeAt(l, s, i + 1)}
  <2>1. SUFFICES ASSUME T # {} PROVE FALSE
    OBVIOUS
  <2>2. PICK m \in T : \A j \in T : m <= j
    <3>1. T \in SUBSET Nat
      OBVIOUS
    <3>. QED BY <2>1, <3>1, LeastNatural
  <2>3. CASE m = 0
    <3>1. at[0] = l.next[Root] /\ l.next[Root] = NodeAt(l, s, 1)
      BY <1>4, RingLinks
    <3>. QED BY <2>3, <3>1
  <2>4. CASE m # 0
    <3>1. m - 1 \in 0..k /\ m - 1 \notin T
      BY <2>2, <2>4
    <3>2. at[m - 1] = NodeAt(l, s, m)
      BY <3>1
    <3>3. at[m] = l.next[NodeAt(l, s, m)]
      BY <2>4, <3>2, <1>4
    <3>4. l.next[NodeAt(l, s, m)] = NodeAt(l, s, m + 1)
      BY RingLinks
    <3>. QED BY <3>3, <3>4
  <2>. QED BY <2>3, <2>4
<1>. QED BY <1>3, <1>5, RingLinks

\* Links followed from Root for k more steps; where it matters, up to a nil link.
Follows(l, k, nilEnds, g) ==
    g = [i \in 0..k |-> IF i = 0 THEN l.next[Root]
                        ELSE IF nilEnds /\ g[i - 1] = Nil THEN Nil ELSE l.next[g[i - 1]]]

LEMMA FollowsExists ==
    ASSUME NEW l, NEW k \in Nat, NEW nilEnds \in BOOLEAN
    PROVE  \E g : Follows(l, k, nilEnds, g)
<1>. DEFINE T == {j \in Nat : ~ \E g : Follows(l, j, nilEnds, g)}
            Step(x) == IF nilEnds /\ x = Nil THEN Nil ELSE l.next[x]
<1>1. SUFFICES ASSUME T # {} PROVE FALSE
  OBVIOUS
<1>2. PICK m \in T : \A j \in T : m <= j
  <2>1. T \in SUBSET Nat
    OBVIOUS
  <2>. HIDE DEF T
  <2>. QED BY <1>1, <2>1, LeastNatural
<1>3. ASSUME NEW j \in Nat, NEW g, \A i \in 0..j : g[i] = IF i = 0 THEN l.next[Root] ELSE Step(g[i - 1]),
             g = [i \in 0..j |-> g[i]]
      PROVE  Follows(l, j, nilEnds, g)
  BY <1>3 DEF Follows
<1>4. ASSUME NEW j \in Nat, NEW g, Follows(l, j, nilEnds, g), NEW i \in 0..j
      PROVE  g[i] = IF i = 0 THEN l.next[Root] ELSE Step(g[i - 1])
  BY <1>4 DEF Follows
<1>. HIDE DEF Step
<1>5. CASE m = 0
  <2>. DEFINE g == [i \in 0..0 |-> l.next[Root]]
  <2>1. g = [i \in 0..0 |-> g[i]] /\ \A i \in 0..0 : i = 0 /\ g[i] = l.next[Root]
    OBVIOUS
  <2>. HIDE DEF g
  <2>2. Follows(l, 0, nilEnds, g)
    BY <1>3, <2>1
  <2>. QED BY <1>2, <1>5, <2>2
<1>6. CASE m # 0
  <2>1. m - 1 \in Nat /\ m - 1 \notin T
    BY <1>2, <1>6
  <2>2. PICK f : Follows(l, m - 1, nilEnds, f)
    BY <2>1
  <2>. DEFINE g == [i \in 0..m |-> IF i = m THEN Step(f[m - 1]) ELSE f[i]]
  <2>3. ASSUME NEW i \in 0..m
        PROVE  g[i] = IF i = 0 THEN l.next[Root] ELSE Step(g[i - 1])
    <3>1. CASE i # m
      <4>1. i \in 0..(m - 1) /\ (i # 0 => i - 1 \in 0..m /\ i - 1 # m)
        BY <2>1, <3>1
      <4>2. f[i] = IF i = 0 THEN l.next[Root] ELSE Step(f[i - 1])
        BY <1>4, <2>1, <2>2, <4>1
      <4>3. g[i] = f[i] /\ (i # 0 => g[i - 1] = f[i - 1])
        BY <3>1, <4>1
      <4>. QED BY <4>2, <4>3
    <3>2. CASE i = m
      <4>1. g[i] = Step(f[m - 1]) /\ g[i - 1] = f[m - 1]
        BY <2>1, <3>2
      <4>. QED BY <1>6, <3>2, <4>1
    <3>. QED BY <3>1, <3>2
  <2>4. g = [i \in 0..m |-> g[i]]
    OBVIOUS
  <2>. HIDE DEF g
  <2>5. Follows(l, m, nilEnds, g)
    BY <1>3, <2>3, <2>4
  <2>. QED BY <1>2, <2>5
<1>. QED BY <1>5, <1>6

\* Walk finds the sequence a list is the ring of.
LEMMA WalkSpelled ==
    ASSUME NEW l, NEW s, Spells(l, s)
    PROVE  Walk(l) = s
<1>. DEFINE n  == Cardinality(Elem)
            at == CHOOSE g : g = [i \in 0..n |->
                      IF i = 0 THEN l.next[Root] ELSE IF g[i - 1] = Nil THEN Nil ELSE l.next[g[i - 1]]]
            ends == {i \in 0..n : at[i] \in {Root, Nil}}
            size == IF ends = {} THEN n + 1 ELSE CHOOSE i \in ends : \A j \in ends : i <= j
<1>1. Walk(l) = [i \in 1..size |-> at[i - 1]]
  BY DEF Walk
<1>2. l \in RingType /\ l.len \in Nat /\ s \in [1..l.len -> Elem] /\ RingOf(l, s)
  BY DEF Spells
<1>3. n \in Nat /\ l.len <= n
  <2>1. s \in Injection(1..l.len, Elem)
    BY <1>2 DEF RingOf, Injection, IsInjective
  <2>2. Cardinality(1..l.len) <= n
    BY <2>1, RingAssumption, FS_Injection
  <2>3. Cardinality(1..l.len) = l.len
    <3>1. Cardinality(1..l.len) = IF 1 > l.len THEN 0 ELSE l.len - 1 + 1
      BY <1>2, FS_Interval
    <3>. QED BY <1>2, <3>1
  <2>. QED BY <2>2, <2>3, RingAssumption, FS_CardinalityType
<1>. HIDE DEF n
<1>4. ASSUME NEW i \in 0..n
      PROVE  at[i] = IF i = 0 THEN l.next[Root]
                     ELSE IF at[i - 1] = Nil THEN Nil ELSE l.next[at[i - 1]]
  <2>1. \E g : g = [j \in 0..n |->
                  IF j = 0 THEN l.next[Root] ELSE IF g[j - 1] = Nil THEN Nil ELSE l.next[g[j - 1]]]
    <3>1. PICK g : Follows(l, n, TRUE, g)
      BY <1>3, FollowsExists
    <3>2. g = [j \in 0..n |->
                  IF j = 0 THEN l.next[Root] ELSE IF g[j - 1] = Nil THEN Nil ELSE l.next[g[j - 1]]]
      BY <3>1, Zenon DEF Follows
    <3>. QED BY <3>2
  <2>2. at = [j \in 0..n |->
                  IF j = 0 THEN l.next[Root] ELSE IF at[j - 1] = Nil THEN Nil ELSE l.next[at[j - 1]]]
    BY <2>1
  <2>. HIDE DEF at
  <2>. QED BY <2>2
<1>. HIDE DEF at
<1>5. \A i \in 0..l.len : at[i] = NodeAt(l, s, i + 1)
  <2>. DEFINE T == {i \in 0..l.len : at[i] # NodeAt(l, s, i + 1)}
  <2>1. SUFFICES ASSUME T # {} PROVE FALSE
    OBVIOUS
  <2>2. PICK m \in T : \A j \in T : m <= j
    <3>1. T \in SUBSET Nat
      BY <1>2
    <3>. HIDE DEF T
    <3>. QED BY <2>1, <3>1, LeastNatural
  <2>3. CASE m = 0
    <3>1. at[0] = l.next[Root] /\ l.next[Root] = NodeAt(l, s, 1)
      BY <1>2, <1>3, <1>4, RingLinks
    <3>. QED BY <2>3, <3>1
  <2>4. CASE m # 0
    <3>1. m - 1 \in 0..l.len /\ m - 1 \notin T /\ m \in 0..n
      BY <1>2, <1>3, <2>2, <2>4
    <3>2. at[m - 1] = NodeAt(l, s, m)
      BY <1>2, <3>1
    <3>3. NodeAt(l, s, m) \in Node /\ Nil \notin Node
      BY <1>2, RingLinks, RingAssumption DEF Node
    <3>4. at[m] = l.next[NodeAt(l, s, m)]
      BY <1>4, <2>4, <3>1, <3>2, <3>3
    <3>5. l.next[NodeAt(l, s, m)] = NodeAt(l, s, m + 1)
      BY <1>2, RingLinks
    <3>. QED BY <3>4, <3>5
  <2>. QED BY <2>3, <2>4
<1>6. l.len \in ends /\ \A j \in ends : l.len <= j
  <2>1. at[l.len] = Root
    BY <1>2, <1>5, RingLinks
  <2>2. ASSUME NEW j \in 0..n, j < l.len PROVE at[j] \in Elem
    BY <1>2, <1>5, <2>2 DEF NodeAt
  <2>. QED BY <1>2, <1>3, <2>1, <2>2, RingAssumption
<1>7. size = l.len
  <2>1. ends # {} /\ ends \subseteq Int
    BY <1>3, <1>6
  <2>. DEFINE c == CHOOSE i \in ends : \A j \in ends : i <= j
  <2>. HIDE DEF ends
  <2>2. size = c
    BY <2>1
  <2>3. c \in ends /\ \A j \in ends : c <= j
    BY <1>6
  <2>. HIDE DEF c, size
  <2>. QED BY <1>2, <1>6, <2>1, <2>2, <2>3
<1>. HIDE DEF size
<1>8. \A i \in 1..l.len : at[i - 1] = s[i]
  BY <1>2, <1>5 DEF NodeAt
<1>. QED BY <1>1, <1>2, <1>7, <1>8
-------------------------------------------------------------------------------
(***************************************************************************)
(* The inductive invariant.  RingIntegrity alone is not inductive: the     *)
(* second half of a MoveToFront acts on an element chosen before the mutex *)
(* was taken, and only the discipline (MoversOwn) keeps it linked.         *)
(***************************************************************************)
MoversOwn == \A g \in Goroutine : moving[g] # Nil => owner[moving[g]] = g
IInv == TypeOK /\ RingIntegrity /\ MoversOwn

\* RingIntegrity, with the ring named.
LEMMA RingIntegrityIff ==
    RingIntegrity <=> /\ list.len \in Nat
                      /\ \E s \in [1..list.len -> Elem] :
                            RingOf(list, s) /\ Members(list.len, s) = Live
BY DEF RingIntegrity, Members

\* The initial list is the ring of the empty sequence.
LEMMA InitIInv == Init => IInv
<1>. SUFFICES ASSUME Init PROVE IInv
  OBVIOUS
<1>. USE RingAssumption, OwnerAssumption DEF Init, NewList
<1>1. TypeOK
  BY DEF TypeOK, RingType, Node, NoOffset
<1>2. RingIntegrity
  <2>1. list.len = 0 /\ list.next[Root] = Root /\ list.prev[Root] = Root
    BY DEF Node
  <2>2. Live = {}
    BY DEF Live
  <2>3. PICK s : s \in [1..0 -> Elem]
    <3>1. [i \in 1..0 |-> CHOOSE e \in Elem : TRUE] \in [1..0 -> Elem]
      OBVIOUS
    <3>. QED BY <3>1
  <2>4. RingOf(list, s) /\ Members(list.len, s) = {}
    BY <2>1, <2>3 DEF RingOf, NodeAt, Members
  <2>. QED BY <2>1, <2>2, <2>3, <2>4, RingIntegrityIff
<1>3. MoversOwn
  BY DEF MoversOwn
<1>. QED BY <1>1, <1>2, <1>3 DEF IInv

\* What Next and Back return in a well-formed ring.
LEMMA LookupLive ==
    ASSUME IInv
    PROVE  /\ Back(list) \in Live \cup {Nil}
           /\ \A k \in Int : NextAt(list, k) \in Live \cup {Nil}
<1>1. PICK s \in [1..list.len -> Elem] : RingOf(list, s) /\ Members(list.len, s) = Live
  BY RingIntegrityIff DEF IInv
<1>2. list \in RingType /\ list.len \in Nat
  BY RingIntegrityIff DEF IInv, TypeOK
<1>3. Back(list) \in Live \cup {Nil}
  <2>1. CASE list.len = 0
    BY <2>1 DEF Back
  <2>2. CASE list.len # 0
    <3>1. list.prev[Root] = NodeAt(list, s, list.len)
      BY <1>1, <1>2, RingLinks
    <3>2. list.len \in 1..list.len /\ NodeAt(list, s, list.len) = s[list.len]
      BY <1>2, <2>2 DEF NodeAt
    <3>3. s[list.len] \in Live
      BY <1>1, <3>2 DEF Members
    <3>. QED BY <2>2, <3>1, <3>2, <3>3 DEF Back
  <2>. QED BY <2>1, <2>2
<1>4. ASSUME NEW k \in Int PROVE NextAt(list, k) \in Live \cup {Nil}
  <2>1. CASE k < 0 \/ k >= list.len
    BY <2>1 DEF NextAt
  <2>2. CASE ~ (k < 0 \/ k >= list.len)
    <3>1. k \in 0..(list.len - 1) /\ k + 1 \in 1..list.len
      BY <1>2, <2>2
    <3>2. At(list, k) = s[k + 1]
      BY <1>1, <1>2, <3>1, AtRing
    <3>3. s[k + 1] \in Live
      BY <1>1, <3>1 DEF Members
    <3>. QED BY <2>2, <3>2, <3>3 DEF NextAt
  <2>. QED BY <2>1, <2>2
<1>. QED BY <1>3, <1>4

\* What each step makes of the sequence.
LEMMA SequenceSteps ==
    ASSUME IInv, NEW s, Spells(list, s), Members(list.len, s) = Live, NEW g \in Goroutine
    PROVE  /\ \A e \in Elem : DoPushFront(g, e) =>
                 /\ e \notin Live /\ Live' = Live \cup {e}
                 /\ Spells(list', Before(list.len, s, e))
                 /\ Members(list'.len, Before(list.len, s, e)) = Live'
           /\ \A e \in Elem : DoPushBack(g, e) =>
                 /\ e \notin Live /\ Live' = Live \cup {e}
                 /\ Spells(list', After(list.len, s, e))
                 /\ Members(list'.len, After(list.len, s, e)) = Live'
           /\ \A e \in Elem : DoRemove(g, e) =>
                 \E k \in 1..list.len :
                    /\ s[k] = e
                    /\ Spells(list', Cut(list.len, s, k))
                    /\ Members(list'.len, Cut(list.len, s, k)) = Live'
           /\ MoveLocked(g) =>
                 \E k \in 1..list.len :
                    /\ Spells(list', Before(list.len - 1, Cut(list.len, s, k), s[k]))
                    /\ Members(list'.len, Before(list.len - 1, Cut(list.len, s, k), s[k])) = Live'
<1>. USE DEF IInv
<1>1. ASSUME NEW e \in Elem, DoPushFront(g, e) \/ DoPushBack(g, e)
      PROVE  e \notin Live /\ Live' = Live \cup {e}
  BY <1>1, OwnerAssumption DEF DoPushFront, DoPushBack, Live, TypeOK
<1>2. ASSUME NEW e \in Elem, DoRemove(g, e)
      PROVE  e \in Live /\ Live' = Live \ {e}
  BY <1>2, OwnerAssumption DEF DoRemove, Live, TypeOK
<1>3. ASSUME MoveLocked(g) PROVE moving[g] \in Live /\ Live' = Live
  BY <1>3, OwnerAssumption DEF MoveLocked, Live, TypeOK, MoversOwn
<1>4. ASSUME NEW e \in Elem, DoPushFront(g, e)
      PROVE  /\ Spells(list', Before(list.len, s, e))
             /\ Members(list'.len, Before(list.len, s, e)) = Live'
  <2>1. e \notin Members(list.len, s) /\ list' = PushFront(list, e)
    BY <1>1, <1>4 DEF DoPushFront
  <2>2. /\ PushFront(list, e).len = list.len + 1
        /\ Spells(PushFront(list, e), Before(list.len, s, e))
        /\ Members(list.len + 1, Before(list.len, s, e)) = Live \cup {e}
    BY <2>1, PushesSpell
  <2>. QED BY <1>1, <1>4, <2>1, <2>2
<1>5. ASSUME NEW e \in Elem, DoPushBack(g, e)
      PROVE  /\ Spells(list', After(list.len, s, e))
             /\ Members(list'.len, After(list.len, s, e)) = Live'
  <2>1. e \notin Members(list.len, s) /\ list' = PushBack(list, e)
    BY <1>1, <1>5 DEF DoPushBack
  <2>2. /\ PushBack(list, e).len = list.len + 1
        /\ Spells(PushBack(list, e), After(list.len, s, e))
        /\ Members(list.len + 1, After(list.len, s, e)) = Live \cup {e}
    BY <2>1, PushesSpell
  <2>. QED BY <1>1, <1>5, <2>1, <2>2
<1>6. ASSUME NEW e \in Elem, DoRemove(g, e)
      PROVE  \E k \in 1..list.len : /\ s[k] = e /\ Spells(list', Cut(list.len, s, k))
                                     /\ Members(list'.len, Cut(list.len, s, k)) = Live'
  <2>1. e \in Members(list.len, s) /\ list' = Remove(list, e)
    BY <1>2, <1>6 DEF DoRemove
  <2>2. \E k \in 1..list.len :
           /\ s[k] = e
           /\ Remove(list, e).len = list.len - 1 /\ Spells(Remove(list, e), Cut(list.len, s, k))
           /\ Members(list.len - 1, Cut(list.len, s, k)) = Live \ {e}
    BY <2>1, RemovesSpell
  <2>. QED BY <1>2, <1>6, <2>1, <2>2
<1>7. ASSUME MoveLocked(g)
      PROVE  \E k \in 1..list.len :
                /\ Spells(list', Before(list.len - 1, Cut(list.len, s, k), s[k]))
                /\ Members(list'.len, Before(list.len - 1, Cut(list.len, s, k), s[k])) = Live'
  BY <1>3, <1>7, MovesSpell DEF MoveLocked
<1>. QED BY <1>1, <1>4, <1>5, <1>6, <1>7

LEMMA NextIInv == IInv /\ [Next]_vars => IInv'
<1>. SUFFICES ASSUME IInv, [Next]_vars PROVE IInv'
  OBVIOUS
<1>. USE DEF IInv
<1>a. list \in RingType /\ list.len \in Nat
  BY RingIntegrityIff DEF TypeOK
<1>0. PICK s : Spells(list, s) /\ Members(list.len, s) = Live
  BY <1>a, RingIntegrityIff DEF Spells
<1>s. ASSUME NEW t, Spells(list', t), Members(list'.len, t) = Live'
      PROVE  list' \in RingType /\ RingIntegrity'
  BY <1>s DEF RingIntegrity, Members, Spells
<1>1. ASSUME NEW g \in Goroutine, NEW e \in Elem, DoPushFront(g, e) PROVE IInv'
  <2>1. list' \in RingType /\ RingIntegrity'
    BY <1>1, <1>0, <1>s, SequenceSteps
  <2>2. TypeOK' /\ MoversOwn'
    BY <1>1, <2>1, OwnerAssumption DEF DoPushFront, TypeOK, MoversOwn
  <2>. QED BY <2>1, <2>2
<1>2. ASSUME NEW g \in Goroutine, NEW e \in Elem, DoPushBack(g, e) PROVE IInv'
  <2>1. list' \in RingType /\ RingIntegrity'
    BY <1>2, <1>0, <1>s, SequenceSteps
  <2>2. TypeOK' /\ MoversOwn'
    BY <1>2, <2>1, OwnerAssumption DEF DoPushBack, TypeOK, MoversOwn
  <2>. QED BY <2>1, <2>2
<1>3. ASSUME NEW g \in Goroutine, NEW e \in Elem, DoRemove(g, e) PROVE IInv'
  <2>1. list' \in RingType /\ RingIntegrity'
    BY <1>3, <1>0, <1>s, SequenceSteps
  <2>2. TypeOK' /\ MoversOwn'
    BY <1>3, <2>1, OwnerAssumption DEF DoRemove, Free, TypeOK, MoversOwn
  <2>. QED BY <2>1, <2>2
<1>4. ASSUME NEW g \in Goroutine, NEW e \in Elem, MoveCheck(g, e) PROVE IInv'
  <2>1. TypeOK' /\ MoversOwn'
    BY <1>4 DEF MoveCheck, TypeOK, MoversOwn
  <2>2. RingIntegrity'
    BY <1>4 DEF MoveCheck, RingIntegrity, Live
  <2>. QED BY <2>1, <2>2
<1>5. ASSUME NEW g \in Goroutine, MoveLocked(g) PROVE IInv'
  <2>1. list' \in RingType /\ RingIntegrity'
    BY <1>5, <1>0, <1>s, SequenceSteps
  <2>2. TypeOK' /\ MoversOwn'
    BY <1>5, <2>1 DEF MoveLocked, TypeOK, MoversOwn
  <2>. QED BY <2>1, <2>2
<1>6. ASSUME NEW g \in Goroutine, NextCheck(g) PROVE IInv'
  <2>1. TypeOK' /\ MoversOwn'
    BY <1>6, <1>a DEF NextCheck, TypeOK, MoversOwn
  <2>2. RingIntegrity'
    BY <1>6 DEF NextCheck, RingIntegrity, Live
  <2>. QED BY <2>1, <2>2
<1>7. ASSUME NEW g \in Goroutine, NextLocked(g) PROVE IInv'
  <2>1. NextAt(list, offset[g]) \in Node \cup {Nil}
    BY LookupLive DEF TypeOK, Live, Node
  <2>2. TypeOK' /\ MoversOwn'
    BY <1>7, <2>1 DEF NextLocked, TypeOK, MoversOwn, NoOffset
  <2>3. RingIntegrity'
    BY <1>7 DEF NextLocked, RingIntegrity, Live
  <2>. QED BY <2>2, <2>3
<1>8. ASSUME NEW g \in Goroutine, DoBack(g) PROVE IInv'
  <2>1. Back(list) \in Node \cup {Nil}
    BY LookupLive DEF Live, Node
  <2>2. TypeOK' /\ MoversOwn'
    BY <1>8, <2>1 DEF DoBack, TypeOK, MoversOwn
  <2>3. RingIntegrity'
    BY <1>8 DEF DoBack, RingIntegrity, Live
  <2>. QED BY <2>2, <2>3
<1>9. CASE UNCHANGED vars
  BY <1>9 DEF vars, TypeOK, RingIntegrity, MoversOwn, Live
<1>. QED
  BY <1>1, <1>2, <1>3, <1>4, <1>5, <1>6, <1>7, <1>8, <1>9 DEF Next, GoroutineStep

LEMMA SpecIInv == Spec => []IInv
BY InitIInv, NextIInv, PTL DEF Spec

\* In every state Len() is the number of elements a walk of the ring visits, in
\* either direction, and these are the elements pushed and not removed.
THEOREM ListIntegrity == Spec => []RingIntegrity
<1>1. IInv => RingIntegrity
  BY DEF IInv
<1>. QED BY <1>1, SpecIInv, PTL

\* Types, with what Next and Back have returned being nodes or nil.
THEOREM ListTypes == Spec => []TypeOK
<1>1. IInv => TypeOK
  BY DEF IInv
<1>. QED BY <1>1, SpecIInv, PTL

\* Next, for whatever offset, and Back return a live element or nothing: no
\* caller ever sees the sentinel or an element removed before the call.
THEOREM ListLookups == Spec => LookupsReturnLive
<1>. DEFINE A == \A g \in Goroutine : seen'[g] # seen[g] => seen'[g] \in Live' \cup {Nil}
<1>1. IInv /\ [Next]_vars => [A]_vars
  <2>. SUFFICES ASSUME IInv, Next PROVE A
    OBVIOUS
  <2>1. ASSUME NEW g \in Goroutine, NEW e \in Elem,
               DoPushFront(g, e) \/ DoPushBack(g, e) \/ DoRemove(g, e) \/ MoveCheck(g, e)
        PROVE  A
    BY <2>1 DEF DoPushFront, DoPushBack, DoRemove, MoveCheck
  <2>2. ASSUME NEW g \in Goroutine, MoveLocked(g) \/ NextCheck(g)
        PROVE  A
    BY <2>2 DEF MoveLocked, NextCheck
  <2>3. ASSUME NEW g \in Goroutine, NextLocked(g) PROVE A
    BY <2>3, LookupLive DEF NextLocked, IInv, TypeOK, Live
  <2>4. ASSUME NEW g \in Goroutine, DoBack(g) PROVE A
    BY <2>4, LookupLive DEF DoBack, IInv, TypeOK, Live
  <2>. QED BY <2>1, <2>2, <2>3, <2>4 DEF Next, GoroutineStep
<1>. QED BY <1>1, SpecIInv, PTL DEF Spec, LookupsReturnLive
-------------------------------------------------------------------------------
(***************************************************************************)
(* The list implements RecencyList: read from Root, it is a sequence that  *)
(* each step changes as one of RecencyList's operations does, or not at    *)
(* all.                                                                    *)
(***************************************************************************)
LEMMA SequencesAsFunctions ==
    ASSUME NEW n \in Nat, NEW s \in [1..n -> Elem], NEW e \in Elem
    PROVE  /\ s \in Seq(Elem) /\ Len(s) = n /\ DOMAIN s = 1..n
           /\ Before(n, s, e) = <<e>> \o s
           /\ After(n, s, e) = Append(s, e)
           /\ \A k \in 1..n : Cut(n, s, k) = Recency!RemoveAt(s, k)
<1>1. s \in Seq(Elem) /\ Len(s) = n /\ DOMAIN s = 1..n
  OBVIOUS
<1>2. Before(n, s, e) = <<e>> \o s
  BY <1>1 DEF Before
<1>3. After(n, s, e) = Append(s, e)
  <2>1. /\ Append(s, e) \in Seq(Elem) /\ Len(Append(s, e)) = n + 1
        /\ \A i \in 1..(n + 1) : Append(s, e)[i] = IF i <= n THEN s[i] ELSE e
    BY <1>1, AppendProperties
  <2>2. After(n, s, e) \in Seq(Elem) /\ Len(After(n, s, e)) = n + 1
    BY DEF After
  <2>3. \A i \in 1..(n + 1) : After(n, s, e)[i] = IF i <= n THEN s[i] ELSE e
    BY DEF After
  <2>4. PICK a, b : a = After(n, s, e) /\ b = Append(s, e)
    OBVIOUS
  <2>5. a = b
    BY <2>1, <2>2, <2>3, <2>4, SeqEqual
  <2>. QED BY <2>4, <2>5
<1>4. ASSUME NEW k \in 1..n PROVE Cut(n, s, k) = Recency!RemoveAt(s, k)
  <2>. DEFINE f == SubSeq(s, 1, k - 1)
              g == SubSeq(s, k + 1, n)
  <2>1. Recency!RemoveAt(s, k) = f \o g
    BY <1>1 DEF Recency!RemoveAt
  <2>2. /\ f \in Seq(Elem) /\ Len(f) = k - 1 /\ \A i \in 1..(k - 1) : f[i] = s[i]
        /\ g \in Seq(Elem) /\ Len(g) = n - k /\ \A i \in 1..(n - k) : g[i] = s[k + i]
    OBVIOUS
  <2>. HIDE DEF f, g
  <2>3. PICK c : c = f \o g
    OBVIOUS
  <2>4. /\ c \in Seq(Elem) /\ Len(c) = n - 1
        /\ \A i \in 1..(n - 1) : c[i] = IF i < k THEN f[i] ELSE g[i - (k - 1)]
    BY SMTT(30), <2>2, <2>3, ConcatProperties
  <2>5. \A i \in 1..(n - 1) : c[i] = IF i < k THEN s[i] ELSE s[i + 1]
    BY <2>2, <2>4
  <2>6. PICK d : d = Cut(n, s, k)
    OBVIOUS
  <2>7. d \in Seq(Elem) /\ Len(d) = n - 1 /\ \A i \in 1..(n - 1) : d[i] = IF i < k THEN s[i] ELSE s[i + 1]
    BY <2>6 DEF Cut
  <2>8. c = d
    BY <2>4, <2>5, <2>7, SeqEqual
  <2>. QED BY <2>1, <2>3, <2>6, <2>8
<1>. QED BY <1>1, <1>2, <1>3, <1>4

LEMMA InitRecency == Init => Recency!Init
<1>. SUFFICES ASSUME Init PROVE Walk(list) = << >>
  BY DEF Recency!Init
<1>1. IInv /\ list.len = 0
  BY InitIInv DEF Init, NewList
<1>2. PICK s : Spells(list, s)
  BY <1>1, RingIntegrityIff DEF IInv, TypeOK, Spells
<1>3. s = << >>
  BY <1>1, <1>2 DEF Spells
<1>. QED BY <1>2, <1>3, WalkSpelled

LEMMA StepRecency == IInv /\ [Next]_vars => [Recency!Next]_(Walk(list))
<1>. SUFFICES ASSUME IInv, [Next]_vars PROVE [Recency!Next]_(Walk(list))
  OBVIOUS
<1>0. PICK s : Spells(list, s) /\ Members(list.len, s) = Live
  BY RingIntegrityIff DEF IInv, TypeOK, Spells
<1>1. Walk(list) = s /\ list.len \in Nat /\ s \in [1..list.len -> Elem]
  BY <1>0, WalkSpelled DEF Spells
<1>2. \A t : Spells(list', t) => Walk(list') = t
  BY WalkSpelled
<1>3. Recency!Range(s) = Live
  BY <1>0, <1>1 DEF Recency!Range, Members
<1>4. ASSUME NEW g \in Goroutine, NEW e \in Elem, DoPushFront(g, e) PROVE Recency!Next
  <2>1. e \notin Live /\ Walk(list') = Before(list.len, s, e)
    BY <1>0, <1>2, <1>4, SequenceSteps
  <2>2. Recency!PushFront(e)
    BY <1>1, <1>3, <2>1, SequencesAsFunctions DEF Recency!PushFront
  <2>. QED BY <2>2 DEF Recency!Next
<1>5. ASSUME NEW g \in Goroutine, NEW e \in Elem, DoPushBack(g, e) PROVE Recency!Next
  <2>1. e \notin Live /\ Walk(list') = After(list.len, s, e)
    BY <1>0, <1>2, <1>5, SequenceSteps
  <2>2. Recency!PushBack(e)
    BY <1>1, <1>3, <2>1, SequencesAsFunctions DEF Recency!PushBack
  <2>. QED BY <2>2 DEF Recency!Next
<1>6. ASSUME NEW g \in Goroutine, NEW e \in Elem, DoRemove(g, e) PROVE Recency!Next
  <2>1. PICK k \in 1..list.len : s[k] = e /\ Walk(list') = Cut(list.len, s, k)
    BY <1>0, <1>2, <1>6, SequenceSteps
  <2>2. Walk(list') = Recency!RemoveAt(s, k) /\ k \in DOMAIN s
    BY <1>1, <2>1, SequencesAsFunctions
  <2>3. Recency!RemoveElement(e)
    BY <1>1, <2>1, <2>2 DEF Recency!RemoveElement
  <2>. QED BY <2>3 DEF Recency!Next
<1>7. ASSUME NEW g \in Goroutine, MoveLocked(g) PROVE Recency!Next
  <2>1. PICK k \in 1..list.len : Walk(list') = Before(list.len - 1, Cut(list.len, s, k), s[k])
    BY <1>0, <1>2, <1>7, SequenceSteps
  <2>2. PICK c : c = Cut(list.len, s, k)
    OBVIOUS
  <2>3. c \in [1..(list.len - 1) -> Elem] /\ list.len - 1 \in Nat /\ s[k] \in Elem
    BY <1>1, <2>2 DEF Cut
  <2>4. Walk(list') = <<s[k]>> \o c
    BY <2>1, <2>2, <2>3, SequencesAsFunctions
  <2>5. c = Recency!RemoveAt(s, k) /\ k \in DOMAIN s
    BY <1>1, <2>2, <2>3, SequencesAsFunctions
  <2>6. Recency!MoveToFront(s[k])
    BY <1>1, <2>4, <2>5 DEF Recency!MoveToFront
  <2>. QED BY <2>3, <2>6 DEF Recency!Next
<1>8. ASSUME UNCHANGED list PROVE UNCHANGED Walk(list)
  BY <1>8, Zenon
<1>9. ASSUME NEW g \in Goroutine,
             NextCheck(g) \/ NextLocked(g) \/ DoBack(g) \/ \E e \in Elem : MoveCheck(g, e)
      PROVE  UNCHANGED list
  BY <1>9 DEF NextCheck, NextLocked, DoBack, MoveCheck
<1>. QED
  BY <1>4, <1>5, <1>6, <1>7, <1>8, <1>9 DEF Next, GoroutineStep, vars

\* Whatever the goroutines do, reading the list from Root gives a sequence that
\* PushFront, PushBack, Remove and MoveToFront change as their names say, each at once.
THEOREM ListIsSequence == Spec => RefinesRecency
BY InitRecency, StepRecency, SpecIInv, PTL DEF Spec, RefinesRecency, Recency!Spec

===============================================================================
