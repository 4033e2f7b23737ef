------------------------------- MODULE SumLemmas -------------------------------
(***************************************************************************)
(* Facts about SumFunctionOnSet of the community modules, with which the   *)
(* specifications state what a counter of weights should come to.  It      *)
(* folds over a set by CHOOSE; for a finite set of integers the order does *)
(* not matter, and the sum follows an element that comes, goes or changes. *)
(* The induction these facts need is an argument by a smallest             *)
(* counterexample.                                                         *)
(***************************************************************************)
EXTENDS Functions, FiniteSetTheorems, WellFoundedInduction, TLAPS

\* What an argument by a smallest counterexample rests on.
LEMMA LeastNatural ==
    ASSUME NEW T \in SUBSET Nat, T # {}
    PROVE  \E m \in T : \A j \in T : m <= j
<1>. DEFINE R == OpToRel(<, Nat)
<1>1. IsWellFoundedOn(R, Nat)
  BY NatLessThanWellFounded
<1>2. \A x, y \in Nat : <<x, y>> \in R <=> x < y
  BY DEF OpToRel
<1>. HIDE DEF R
<1>3. PICK m \in T : \A j \in T : ~ (<<j, m>> \in R)
  BY <1>1, WFMin, Zenon
<1>4. ASSUME NEW j \in T PROVE ~ (j < m)
  BY <1>2, <1>3, Zenon
<1>. QED BY <1>4

\* Some member of a nonempty collection of subsets of a finite set has no other
\* member strictly inside.
LEMMA SmallestSubset ==
    ASSUME NEW S, IsFiniteSet(S), NEW B, B \subseteq SUBSET S, B # {}
    PROVE  \E T \in B : \A U \in B : ~ (U \subseteq T /\ U # T)
<1>. DEFINE R == StrictSubsetOrdering(S)
<1>1. IsWellFoundedOn(R, SUBSET S)
  BY FS_StrictSubsetOrderingWellFounded, FS_FiniteSubsetsOfFinite
<1>2. \E T \in B : \A U \in B : ~ (<<U, T>> \in R)
  <2>. HIDE DEF R
  <2>. QED BY <1>1, WFMin, Zenon
<1>. QED BY <1>2 DEF StrictSubsetOrdering

\* The element the fold takes first.
First(S) == CHOOSE x \in S : TRUE

\* g is the fold's table for the subsets of D.
Table(fun, D, g) ==
    g = [s \in SUBSET D |-> IF s = {} THEN 0 ELSE fun[First(s)] + g[s \ {First(s)}]]

Fold(fun, S) == CHOOSE g : Table(fun, S, g)

LEMMA SumIsFold == ASSUME NEW fun, NEW S PROVE SumFunctionOnSet(fun, S) = Fold(fun, S)[S]
BY DEF SumFunctionOnSet, FoldFunctionOnSet, MapThenFoldSet, Fold, Table, First

LEMMA FirstIn == ASSUME NEW S, S # {} PROVE First(S) \in S
BY DEF First

\* Two tables agree wherever both are defined.
LEMMA TablesAgree ==
    ASSUME NEW fun, NEW D, NEW E, NEW g, NEW h, Table(fun, D, g), Table(fun, E, h),
           NEW S, IsFiniteSet(S), S \subseteq D, S \subseteq E
    PROVE  g[S] = h[S]
<1>. DEFINE B == {s \in SUBSET S : g[s] # h[s]}
<1>1. SUFFICES ASSUME B # {} PROVE FALSE
  OBVIOUS
<1>2. PICK T \in B : \A U \in B : ~ (U \subseteq T /\ U # T)
  <2>1. B \subseteq SUBSET S
    OBVIOUS
  <2>. HIDE DEF B
  <2>. QED BY <1>1, <2>1, SmallestSubset
<1>3. CASE T = {}
  BY <1>2, <1>3 DEF Table
<1>4. CASE T # {}
  <2>1. First(T) \in T /\ T \subseteq S
    BY <1>4, FirstIn
  <2>2. g[T \ {First(T)}] = h[T \ {First(T)}]
    <3>1. T \ {First(T)} \in SUBSET S
      BY <2>1
    <3>. QED BY <1>2, <2>1, <3>1
  <2>3. g[T] = fun[First(T)] + g[T \ {First(T)}] /\ h[T] = fun[First(T)] + h[T \ {First(T)}]
    BY <1>4, <2>1 DEF Table
  <2>. QED BY <1>2, <2>2, <2>3
<1>. QED BY <1>3, <1>4

\* The fold of a finite set has a table.
LEMMA TableExists ==
    ASSUME NEW fun, NEW S, IsFiniteSet(S)
    PROVE  Table(fun, S, Fold(fun, S))
<1>. DEFINE B == {s \in SUBSET S : ~ Table(fun, s, Fold(fun, s))}
<1>1. SUFFICES ASSUME B # {} PROVE FALSE
  OBVIOUS
<1>2. PICK T \in B : \A U \in B : ~ (U \subseteq T /\ U # T)
  <2>1. B \subseteq SUBSET S
    OBVIOUS
  <2>. HIDE DEF B
  <2>. QED BY <1>1, <2>1, SmallestSubset
<1>3. \A s \in SUBSET T : s # T => Table(fun, s, Fold(fun, s)) /\ IsFiniteSet(s)
  BY <1>2, FS_Subset
<1>. DEFINE V(s) == IF s = T /\ T # {} THEN fun[First(s)] + Fold(fun, s \ {First(s)})[s \ {First(s)}]
                    ELSE IF s = {} THEN 0 ELSE Fold(fun, s)[s]
            g == [s \in SUBSET T |-> V(s)]
<1>4. ASSUME NEW s \in SUBSET T, s # {}
      PROVE  V(s) = fun[First(s)] + V(s \ {First(s)})
  <2>. DEFINE r == s \ {First(s)}
  <2>1. First(s) \in s /\ r \in SUBSET T /\ r # T /\ r # s
    BY <1>4, FirstIn
  <2>2. Table(fun, r, Fold(fun, r)) /\ IsFiniteSet(r)
    BY <1>3, <2>1
  <2>3. V(r) = Fold(fun, r)[r]
    <3>1. CASE r = {}
      <4>1. Fold(fun, r)[r] = 0
        BY <2>2, <3>1 DEF Table
      <4>. QED BY <2>1, <3>1, <4>1
    <3>. QED BY <2>1, <3>1
  <2>4. CASE s = T
    BY <1>4, <2>3, <2>4
  <2>5. CASE s # T
    <3>1. Table(fun, s, Fold(fun, s))
      BY <1>3, <2>5
    <3>2. Fold(fun, s)[s] = fun[First(s)] + Fold(fun, s)[r]
      BY <1>4, <3>1 DEF Table
    <3>3. Fold(fun, s)[r] = Fold(fun, r)[r]
      <4>1. r \subseteq s /\ r \subseteq r
        OBVIOUS
      <4>. HIDE DEF r
      <4>. QED BY <2>2, <3>1, <4>1, TablesAgree
    <3>4. V(s) = Fold(fun, s)[s]
      BY <1>4, <2>5
    <3>. QED BY <2>3, <3>2, <3>3, <3>4
  <2>. QED BY <2>4, <2>5
<1>5. V({}) = 0
  OBVIOUS
<1>6. Table(fun, T, g)
  <2>1. ASSUME NEW s \in SUBSET T
        PROVE g[s] = IF s = {} THEN 0 ELSE fun[First(s)] + g[s \ {First(s)}]
    <3>1. g[s] = V(s) /\ s \ {First(s)} \in SUBSET T /\ g[s \ {First(s)}] = V(s \ {First(s)})
      OBVIOUS
    <3>. HIDE DEF V, g
    <3>. QED BY <1>4, <1>5, <3>1
  <2>2. g = [s \in SUBSET T |-> g[s]]
    OBVIOUS
  <2>. HIDE DEF V, g
  <2>. QED BY <2>1, <2>2 DEF Table
<1>7. Table(fun, T, Fold(fun, T))
  <2>. HIDE DEF g
  <2>. QED BY <1>6 DEF Fold
<1>. QED BY <1>2, <1>7

\* What the sum of a finite set of integers comes to.
LEMMA SumEmpty == ASSUME NEW fun PROVE SumFunctionOnSet(fun, {}) = 0
<1>1. Table(fun, {}, Fold(fun, {}))
  BY TableExists, FS_EmptySet
<1>. QED BY <1>1, SumIsFold DEF Table

LEMMA SumFirst ==
    ASSUME NEW fun, NEW S, IsFiniteSet(S), S # {}
    PROVE  SumFunctionOnSet(fun, S) = fun[First(S)] + SumFunctionOnSet(fun, S \ {First(S)})
<1>. DEFINE r == S \ {First(S)}
<1>1. First(S) \in S /\ r \subseteq S /\ IsFiniteSet(r)
  BY FirstIn, FS_Subset
<1>2. Table(fun, S, Fold(fun, S)) /\ Table(fun, r, Fold(fun, r))
  BY <1>1, TableExists
<1>3. Fold(fun, S)[r] = Fold(fun, r)[r]
  <2>. HIDE DEF r
  <2>. QED BY <1>1, <1>2, TablesAgree
<1>4. Fold(fun, S)[S] = fun[First(S)] + Fold(fun, S)[r]
  <2>1. PICK g : g = Fold(fun, S)
    OBVIOUS
  <2>2. g[S] = fun[First(S)] + g[r]
    BY <1>2, <2>1 DEF Table
  <2>. QED BY <2>1, <2>2
<1>. QED BY <1>3, <1>4, SumIsFold

LEMMA SumInt ==
    ASSUME NEW fun, NEW S, IsFiniteSet(S), \A x \in S : fun[x] \in Int
    PROVE  SumFunctionOnSet(fun, S) \in Int
<1>. DEFINE B == {s \in SUBSET S : SumFunctionOnSet(fun, s) \notin Int}
<1>1. SUFFICES ASSUME B # {} PROVE FALSE
  OBVIOUS
<1>2. PICK T \in B : \A U \in B : ~ (U \subseteq T /\ U # T)
  <2>1. B \subseteq SUBSET S
    OBVIOUS
  <2>. HIDE DEF B
  <2>. QED BY <1>1, <2>1, SmallestSubset
<1>3. T # {} /\ T \subseteq S /\ IsFiniteSet(T)
  <2>1. T \subseteq S /\ IsFiniteSet(T)
    BY <1>2, FS_Subset
  <2>2. T # {}
    BY <1>2, SumEmpty
  <2>. QED BY <2>1, <2>2
<1>4. First(T) \in T
  BY <1>3, FirstIn
<1>5. SumFunctionOnSet(fun, T \ {First(T)}) \in Int
  BY <1>2, <1>3, <1>4
<1>. QED BY <1>2, <1>3, <1>4, <1>5, SumFirst

\* Two functions that agree on a set have the same sum there.
LEMMA SumSame ==
    ASSUME NEW f, NEW g, NEW S, IsFiniteSet(S), \A x \in S : f[x] = g[x]
    PROVE  SumFunctionOnSet(f, S) = SumFunctionOnSet(g, S)
<1>. DEFINE B == {s \in SUBSET S : SumFunctionOnSet(f, s) # SumFunctionOnSet(g, s)}
<1>1. SUFFICES ASSUME B # {} PROVE FALSE
  OBVIOUS
<1>2. PICK T \in B : \A U \in B : ~ (U \subseteq T /\ U # T)
  <2>1. B \subseteq SUBSET S
    OBVIOUS
  <2>. HIDE DEF B
  <2>. QED BY <1>1, <2>1, SmallestSubset
<1>3. T # {} /\ T \subseteq S /\ IsFiniteSet(T)
  <2>1. T \subseteq S /\ IsFiniteSet(T)
    BY <1>2, FS_Subset
  <2>2. T # {}
    BY <1>2, SumEmpty
  <2>. QED BY <2>1, <2>2
<1>4. First(T) \in T
  BY <1>3, FirstIn
<1>5. SumFunctionOnSet(f, T \ {First(T)}) = SumFunctionOnSet(g, T \ {First(T)})
  BY <1>2, <1>3, <1>4
<1>. QED BY <1>2, <1>3, <1>4, <1>5, SumFirst

\* Any element may be taken first.
LEMMA SumRemove ==
    ASSUME NEW fun, NEW S, IsFiniteSet(S), \A y \in S : fun[y] \in Int, NEW x \in S
    PROVE  SumFunctionOnSet(fun, S) = fun[x] + SumFunctionOnSet(fun, S \ {x})
<1>. DEFINE Sum(s) == SumFunctionOnSet(fun, s)
            B == {s \in SUBSET S : \E y \in s : Sum(s) # fun[y] + Sum(s \ {y})}
<1>1. SUFFICES ASSUME B # {} PROVE FALSE
  OBVIOUS
<1>2. PICK T \in B : \A U \in B : ~ (U \subseteq T /\ U # T)
  <2>1. B \subseteq SUBSET S
    OBVIOUS
  <2>. HIDE DEF B
  <2>. QED BY <1>1, <2>1, SmallestSubset
<1>3. PICK y \in T : Sum(T) # fun[y] + Sum(T \ {y})
  BY <1>2
<1>. DEFINE c == First(T)
            r == (T \ {y}) \ {c}
<1>4. c \in T /\ T \subseteq S /\ IsFiniteSet(T)
  BY <1>2, FirstIn, FS_Subset
<1>5. Sum(T) = fun[c] + Sum(T \ {c})
  BY <1>4, SumFirst
<1>6. y # c
  BY <1>3, <1>5
<1>7. Sum(T \ {c}) = fun[y] + Sum(r)
  <2>1. T \ {c} \notin B
    BY <1>2, <1>4
  <2>2. y \in T \ {c} /\ T \ {c} \in SUBSET S /\ (T \ {c}) \ {y} = r
    BY <1>4, <1>6
  <2>. HIDE DEF c, r, Sum
  <2>. QED BY <2>1, <2>2
<1>8. Sum(T \ {y}) = fun[c] + Sum(r)
  <2>1. T \ {y} \notin B
    BY <1>2
  <2>2. c \in T \ {y} /\ T \ {y} \in SUBSET S
    BY <1>4, <1>6
  <2>. HIDE DEF c, Sum
  <2>. QED BY <2>1, <2>2
<1>9. Sum(r) \in Int /\ fun[c] \in Int /\ fun[y] \in Int
  <2>1. r \subseteq S /\ IsFiniteSet(r) /\ \A z \in r : fun[z] \in Int
    BY <1>4, FS_Subset
  <2>. HIDE DEF r
  <2>. QED BY <1>4, <2>1, SumInt
<1>. HIDE DEF c, r, Sum
<1>. QED BY <1>3, <1>5, <1>7, <1>8, <1>9

LEMMA SumAdd ==
    ASSUME NEW fun, NEW S, IsFiniteSet(S), NEW x, x \notin S,
           \A y \in S \cup {x} : fun[y] \in Int
    PROVE  SumFunctionOnSet(fun, S \cup {x}) = fun[x] + SumFunctionOnSet(fun, S)
<1>1. IsFiniteSet(S \cup {x}) /\ x \in S \cup {x} /\ (S \cup {x}) \ {x} = S
  BY FS_AddElement
<1>. QED BY <1>1, SumRemove

\* An element's value changes the sum by as much.
LEMMA SumChange ==
    ASSUME NEW f, NEW g, NEW S, IsFiniteSet(S), NEW x \in S,
           \A y \in S : f[y] \in Int /\ g[y] \in Int,
           \A y \in S \ {x} : f[y] = g[y]
    PROVE  SumFunctionOnSet(g, S) = SumFunctionOnSet(f, S) - f[x] + g[x]
<1>1. IsFiniteSet(S \ {x})
  BY FS_Subset
<1>2. SumFunctionOnSet(f, S \ {x}) = SumFunctionOnSet(g, S \ {x})
  BY <1>1, SumSame
<1>3. SumFunctionOnSet(f, S \ {x}) \in Int
  BY <1>1, SumInt
<1>4. /\ SumFunctionOnSet(f, S) = f[x] + SumFunctionOnSet(f, S \ {x})
      /\ SumFunctionOnSet(g, S) = g[x] + SumFunctionOnSet(g, S \ {x})
  BY SumRemove
<1>. QED BY <1>2, <1>3, <1>4
===============================================================================
