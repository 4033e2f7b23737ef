----------------------------- MODULE RequestsProofs -----------------------------
(***************************************************************************)
(* Proofs about Requests, for any number of handlers and refreshes, any    *)
(* keys, rules and answers, and any number of epochs.                      *)
(*                                                                         *)
(* The argument: whatever a pool lacks is with exactly one process, in one *)
(* role (Owned), so a step can change the contents only of what its own    *)
(* process has or of what nobody has (ContentsKept), and an entry takes    *)
(* only later answers to the question it is for (Later).  Hence what holds *)
(* of a process where it stands (ProcInv) outlasts every step of another   *)
(* (OthersKeep), and each step has only its own process to account for.    *)
(***************************************************************************)
EXTENDS Requests, TLAPS, FiniteSetTheorems, WellFoundedInduction

\* An entry x as it is to be at time t, stored for key k or refreshed for it.
Sound(x, k, t) ==
    /\ x \in Entry /\ x.payload.key = k
    /\ x.payload.headers = x.payload.body
    /\ x.payload.body.key = k /\ x.payload.body.ver # Bad
    /\ x.at <= x.payload.body.epoch /\ x.payload.body.epoch <= t
Good(e, k) == Sound(ent[e], k, epoch)

\* What is stored belongs to a path with a rule, and is as it is to be.
Stored == \A k \in Key : store[k] # Nil => k \in Ruled /\ Good(store[k], k)

\* Who has what of a pool, pr being the processes: in the pool once, or in one role of
\* one of them.
OwnBy(pool, pr, roles) ==
    /\ \A o \in DOMAIN pool :
          /\ pool[o] \in {0, 1}
          /\ pool[o] = 0 <=> \E p \in Proc, f \in roles : pr[p][f] = o
    /\ \A p1, p2 \in Proc : \A f1, f2 \in roles :
          pr[p1][f1] = pr[p2][f2] /\ pr[p1][f1] # Nil => p1 = p2 /\ f1 = f2

Owned ==
    /\ OwnBy(slices, proc, {"q", "h", "uh"})
    /\ OwnBy(bufs, proc, {"buf"})
    /\ OwnBy(resps, proc, {"resp"})

\* What a handler or refresh has in its hands, by where it stands.
Upstream(s) == s.pc \in {"receive", "got", "restamp"} \/ (s.pc = "write" /\ s.val = Nil)
ProcInv(p) ==
    LET s == proc[p]
    IN  /\ s.pc = "idle" => s = Idle
        /\ s.pc = "unpack" =>
              /\ s.e \in EntryId /\ s.q = Nil /\ s.h = Nil /\ s.val = Nil
              /\ p \in Req => s.lm \in Nat /\ s.lm <= ent[s.e].payload.body.epoch
        /\ s.pc \in {"unpack", "ask", "receive"} => s.uh = Nil /\ s.buf = Nil
        /\ s.pc \in {"unpack", "ask"} => s.resp = Nil
        /\ s.pc # "idle" => s.key \in Key
        /\ s.cached => s.key \in Ruled
        /\ s.e # Nil => Good(s.e, s.key)
        /\ p \in Worker /\ s.pc # "idle" => s.e \in EntryId
        /\ p \in Req /\ s.pc # "unpack" => s.e = Nil
        /\ s.pc \in {"ask", "receive", "got"} =>
              /\ s.q \in Slice /\ inSlice[s.q] = [of |-> "req", is |-> s.key]
              /\ p \in Req => s.val = Nil /\ s.h = Nil
        /\ Upstream(s) =>
              /\ s.resp \in Obj /\ inResp[s.resp] \in Answer
              /\ inResp[s.resp].key = s.key /\ inResp[s.resp].epoch = epoch
        /\ s.pc # "receive" /\ Upstream(s) =>
              /\ s.uh \in Slice /\ inSlice[s.uh] = [of |-> "resp", is |-> s.resp]
              /\ s.buf \in Obj /\ inBuf[s.buf] = inResp[s.resp]
        /\ s.pc = "restamp" => p \in Worker /\ ent[s.e].payload.body.epoch = epoch
        /\ s.pc = "write" =>
              /\ p \in Req /\ s.lm \in Nat
              /\ IF s.val = Nil THEN s.lm = epoch
                 ELSE /\ s.h \in Slice /\ inSlice[s.h] = [of |-> "payload", is |-> s.val.headers]
                      /\ s.val.headers = s.val.body /\ s.val.body.key = s.key
                      /\ s.lm <= s.val.body.epoch
        /\ s.out # Nil =>
              /\ s.pc = "put" /\ s.lm \in Nat
              /\ s.out.headers = s.out.body /\ s.out.body.key = s.key
              /\ s.lm <= s.out.body.epoch

IInv == TypeOK /\ Owned /\ Stored /\ \A p \in Proc : ProcInv(p)
-------------------------------------------------------------------------------
\* A set of naturals that is not empty has a least element, and Min is it.
LEMMA MinIsLeast ==
    ASSUME NEW S \in SUBSET Nat, S # {}
    PROVE  Min(S) \in S /\ \A x \in S : Min(S) <= x
<1> DEFINE R == OpToRel(<, Nat)
<1>1. IsWellFoundedOn(R, Nat)
  BY NatLessThanWellFounded, Zenon
<1>2. \A x, y \in Nat : <<x, y>> \in R <=> x < y
  BY DEF OpToRel
<1> HIDE DEF R
<1>3. PICK x \in S : \A y \in S : ~ (<<y, x>> \in R)
  BY <1>1, WFMin, Zenon
<1>4. \A y \in S : ~ (y < x)
  BY <1>2, <1>3, Zenon
<1>5. \A y \in S : x <= y
  BY <1>4
<1> QED
  BY <1>5, Zenon DEF Min

\* If everything taken from a pool is had by one of fewer holders than it has objects,
\* there is one left; and with two fewer, two.
LEMMA OneIsFree ==
    ASSUME NEW D, IsFiniteSet(D), NEW T \in SUBSET D, NEW H, IsFiniteSet(H), NEW f,
           \A o \in T : \E x \in H : f[x] = o,
           Cardinality(H) < Cardinality(D)
    PROVE  \E o \in D : o \notin T
<1> DEFINE H1 == {x \in H : f[x] \in T}
           g == [x \in H1 |-> f[x]]
<1>1. g \in Surjection(H1, T)
  BY DEF Surjection
<1>2. IsFiniteSet(H1) /\ Cardinality(H1) <= Cardinality(H)
  BY FS_Subset
<1>3. Cardinality(T) <= Cardinality(H1)
  BY <1>1, <1>2, FS_Surjection
<1>4. /\ Cardinality(T) \in Nat /\ Cardinality(H1) \in Nat
      /\ Cardinality(H) \in Nat /\ Cardinality(D) \in Nat
  BY <1>2, FS_CardinalityType, FS_Subset
<1>5. Cardinality(T) # Cardinality(D)
  BY <1>2, <1>3, <1>4
<1>6. QED
  BY <1>5

-------------------------------------------------------------------------------
\* Counting: with at most one object of a kind in each role of each holder, there is
\* a free one for whoever has an empty role, and two for whoever has two.
Roles == {"q", "h", "uh"}

LEMMA Sizes ==
    /\ Cardinality(Proc) \in Nat /\ Cardinality(Ruled) \in Nat
    /\ IsFiniteSet(Slice) /\ Cardinality(Slice) = 3 * Cardinality(Proc)
    /\ IsFiniteSet(Obj) /\ Cardinality(Obj) = Cardinality(Proc)
    /\ IsFiniteSet(EntryId) /\ Cardinality(EntryId) = Cardinality(Proc) + Cardinality(Ruled)
    /\ IsFiniteSet(Proc \X Roles) /\ Cardinality(Proc \X Roles) = 3 * Cardinality(Proc)
<1>1. Cardinality(Proc) \in Nat /\ Cardinality(Ruled) \in Nat
  BY RequestsAssumption, FS_CardinalityType
<1>2. \A n \in Nat : IsFiniteSet(1..n) /\ Cardinality(1..n) = n
  BY FS_Interval
<1>3. IsFiniteSet(Roles) /\ Cardinality(Roles) = 3
  <2>1. IsFiniteSet({"q"}) /\ Cardinality({"q"}) = 1
    BY FS_Singleton
  <2>2. IsFiniteSet({"q"} \cup {"h"}) /\ Cardinality({"q"} \cup {"h"}) = 2
    BY <2>1, FS_AddElement
  <2>3. /\ IsFiniteSet(({"q"} \cup {"h"}) \cup {"uh"})
        /\ Cardinality(({"q"} \cup {"h"}) \cup {"uh"}) = 3
    BY <2>2, FS_AddElement
  <2>4. Roles = ({"q"} \cup {"h"}) \cup {"uh"}
    BY DEF Roles
  <2> QED
    BY <2>3, <2>4
<1>4. IsFiniteSet(Proc \X Roles) /\ Cardinality(Proc \X Roles) = Cardinality(Proc) * 3
  BY <1>3, RequestsAssumption, FS_Product
<1> QED
  BY <1>1, <1>2, <1>4 DEF Slice, Obj, EntryId

\* A pool and those who hold from it, before and after one of them, p, takes or gives.
Others(pr, pr2, p) == \A x \in Proc \ {p} : pr2[x] = pr[x]
Moves(pool, pool2, pr, pr2, p, roles) ==
    /\ DOMAIN pool2 = DOMAIN pool /\ Nil \notin DOMAIN pool
    /\ \A f1, f2 \in roles : pr2[p][f1] = pr2[p][f2] /\ pr2[p][f1] # Nil => f1 = f2
    /\ \A f \in roles : \/ pr2[p][f] = pr[p][f] \/ pr2[p][f] = Nil
                        \/ pr2[p][f] \in DOMAIN pool /\ pool[pr2[p][f]] # 0
    /\ \A o \in DOMAIN pool : pool2[o] =
          IF \E f \in roles : pr2[p][f] = o THEN 0
          ELSE IF \E f \in roles : pr[p][f] = o THEN 1 ELSE pool[o]

LEMMA OwnChange ==
    ASSUME NEW pool, NEW pool2, NEW roles, NEW pr, NEW pr2, NEW p \in Proc,
           OwnBy(pool, pr, roles), Others(pr, pr2, p),
           Moves(pool, pool2, pr, pr2, p, roles)
    PROVE  OwnBy(pool2, pr2, roles)
<1> USE DEF Others, Moves
<1>1. ASSUME NEW o \in DOMAIN pool
      PROVE  pool2[o] \in {0, 1} /\ (pool2[o] = 0 <=> \E x \in Proc, f \in roles : pr2[x][f] = o)
  <2>1. CASE \E f \in roles : pr2[p][f] = o
    BY <2>1
  <2>2. CASE ~ (\E f \in roles : pr2[p][f] = o) /\ (\E f \in roles : pr[p][f] = o)
    <3>1. pool2[o] = 1
      BY <2>2
    <3>2. ASSUME NEW x \in Proc, NEW f \in roles, pr2[x][f] = o
          PROVE  FALSE
      <4>1. x # p /\ pr2[x] = pr[x]
        BY <3>2, <2>2
      <4>2. PICK f1 \in roles : pr[p][f1] = o
        BY <2>2
      <4>3. pr[x][f] = pr[p][f1] /\ pr[x][f] # Nil
        BY <3>2, <4>1, <4>2
      <4> QED
        BY <4>1, <4>3 DEF OwnBy
    <3> QED
      BY <3>1, <3>2
  <2>3. CASE ~ (\E f \in roles : pr2[p][f] = o) /\ ~ (\E f \in roles : pr[p][f] = o)
    <3>1. pool2[o] = pool[o]
      BY <2>3
    <3>2. (\E x \in Proc, f \in roles : pr2[x][f] = o) <=> (\E x \in Proc, f \in roles : pr[x][f] = o)
      BY <2>3
    <3> QED
      BY <3>1, <3>2 DEF OwnBy
  <2> QED
    BY <2>1, <2>2, <2>3
<1>2. ASSUME NEW f \in roles, NEW x \in Proc \ {p}, NEW f2 \in roles,
             pr2[p][f] = pr2[x][f2], pr2[p][f] # Nil
      PROVE  FALSE
  <2>1. pr2[x] = pr[x]
    OBVIOUS
  <2>2. CASE pr2[p][f] = pr[p][f]
    BY <1>2, <2>1, <2>2 DEF OwnBy
  <2>3. CASE pr2[p][f] \in DOMAIN pool /\ pool[pr2[p][f]] # 0
    BY <1>2, <2>1, <2>3 DEF OwnBy
  <2> QED
    BY <1>2, <2>2, <2>3
<1>3. ASSUME NEW p1 \in Proc, NEW p2 \in Proc, NEW f1 \in roles, NEW f2 \in roles,
             pr2[p1][f1] = pr2[p2][f2], pr2[p1][f1] # Nil
      PROVE  p1 = p2 /\ f1 = f2
  <2>1. CASE p1 = p /\ p2 = p
    BY <1>3, <2>1
  <2>2. CASE p1 = p /\ p2 # p
    BY <1>2, <1>3, <2>2
  <2>3. CASE p1 # p /\ p2 = p
    BY <1>2, <1>3, <2>3
  <2>4. CASE p1 # p /\ p2 # p
    BY <1>3, <2>4 DEF OwnBy
  <2> QED
    BY <2>1, <2>2, <2>3, <2>4
<1> QED
  BY <1>1, <1>3 DEF OwnBy

\* The three ways a step changes a pool: not at all, taking the set S for roles that
\* were empty, and giving all back.
Keeps(pr, pr2, p, roles) == \A f \in roles : pr2[p][f] = pr[p][f]
Takes(pool, S, pr, pr2, p, roles) ==
    /\ S \subseteq DOMAIN pool /\ Nil \notin DOMAIN pool
    /\ \A o \in S : pool[o] = 1 /\ \E f \in roles : pr2[p][f] = o
    /\ \A f \in roles : pr2[p][f] = pr[p][f] \/ (pr[p][f] = Nil /\ pr2[p][f] \in S)
    /\ \A f1, f2 \in roles : pr2[p][f1] = pr2[p][f2] /\ pr2[p][f1] \in S => f1 = f2
Gives(pool, S, pr, pr2, p, roles) ==
    /\ Nil \notin DOMAIN pool
    /\ \A f \in roles : pr2[p][f] = Nil
    /\ \A o \in DOMAIN pool : o \in S <=> \E f \in roles : pr[p][f] = o

LEMMA OwnSame ==
    ASSUME NEW pool, NEW roles, NEW pr, NEW pr2, NEW p \in Proc, OwnBy(pool, pr, roles),
           Others(pr, pr2, p), Keeps(pr, pr2, p, roles)
    PROVE  OwnBy(pool, pr2, roles)
<1>1. \A x \in Proc : \A f \in roles : pr2[x][f] = pr[x][f]
  BY DEF Others, Keeps
<1> QED
  BY <1>1 DEF OwnBy

LEMMA OwnTake ==
    ASSUME NEW pool, NEW roles, NEW pr, NEW pr2, NEW p \in Proc, OwnBy(pool, pr, roles),
           NEW S, Others(pr, pr2, p), Takes(pool, S, pr, pr2, p, roles)
    PROVE  OwnBy(Taken(pool, S), pr2, roles)
<1> DEFINE pool2 == Taken(pool, S)
<1> USE DEF Takes
<1>1. /\ DOMAIN pool2 = DOMAIN pool
      /\ \A o \in DOMAIN pool : pool2[o] = IF o \in S THEN pool[o] - 1 ELSE pool[o]
  BY DEF Taken
<1>2. ASSUME NEW o \in DOMAIN pool
      PROVE  pool2[o] = IF \E f \in roles : pr2[p][f] = o THEN 0
                        ELSE IF \E f \in roles : pr[p][f] = o THEN 1 ELSE pool[o]
  <2>1. CASE o \in S
    BY <1>1, <2>1
  <2>2. CASE o \notin S
    <3>1. pool2[o] = pool[o]
      BY <1>1, <2>2
    <3>2. \A f \in roles : pr2[p][f] = o <=> pr[p][f] = o
      BY <2>2
    <3>3. (\E f \in roles : pr[p][f] = o) => pool[o] = 0
      BY DEF OwnBy
    <3> QED
      BY <3>1, <3>2, <3>3
  <2> QED
    BY <2>1, <2>2
<1>3. \A f1, f2 \in roles : pr2[p][f1] = pr2[p][f2] /\ pr2[p][f1] # Nil => f1 = f2
  <2> SUFFICES ASSUME NEW f1 \in roles, NEW f2 \in roles,
                      pr2[p][f1] = pr2[p][f2], pr2[p][f1] # Nil, pr2[p][f1] \notin S
               PROVE  f1 = f2
    OBVIOUS
  <2>1. pr[p][f1] = pr[p][f2] /\ pr[p][f1] # Nil
    OBVIOUS
  <2> QED
    BY <2>1 DEF OwnBy
<1>4. \A f \in roles : pr2[p][f] = pr[p][f] \/ pr2[p][f] = Nil
                       \/ (pr2[p][f] \in DOMAIN pool /\ pool[pr2[p][f]] # 0)
  OBVIOUS
<1> HIDE DEF pool2
<1>5. Moves(pool, pool2, pr, pr2, p, roles)
  BY <1>1, <1>2, <1>3, <1>4 DEF Moves
<1>6. OwnBy(pool2, pr2, roles)
  BY <1>5, OwnChange
<1> QED
  BY <1>6 DEF pool2

LEMMA OwnGive ==
    ASSUME NEW pool, NEW roles, NEW pr, NEW pr2, NEW p \in Proc, OwnBy(pool, pr, roles),
           NEW S, Others(pr, pr2, p), Gives(pool, S, pr, pr2, p, roles)
    PROVE  OwnBy(Given(pool, S), pr2, roles)
<1> DEFINE pool2 == Given(pool, S)
<1> USE DEF Gives
<1>1. /\ DOMAIN pool2 = DOMAIN pool
      /\ \A o \in DOMAIN pool : pool2[o] = IF o \in S THEN pool[o] + 1 ELSE pool[o]
  BY DEF Given
<1>2. ASSUME NEW o \in DOMAIN pool
      PROVE  pool2[o] = IF \E f \in roles : pr2[p][f] = o THEN 0
                        ELSE IF \E f \in roles : pr[p][f] = o THEN 1 ELSE pool[o]
  <2>1. ~ \E f \in roles : pr2[p][f] = o
    OBVIOUS
  <2>2. (\E f \in roles : pr[p][f] = o) => pool[o] = 0
    BY DEF OwnBy
  <2> QED
    BY <1>1, <2>1, <2>2
<1> HIDE DEF pool2
<1>3. Moves(pool, pool2, pr, pr2, p, roles)
  BY <1>1, <1>2 DEF Moves
<1>4. OwnBy(pool2, pr2, roles)
  BY <1>3, OwnChange
<1> QED
  BY <1>4 DEF pool2

\* What the properties say of a pool follows from who has what.
LEMMA OwnedOnce ==
    ASSUME NEW pool, NEW roles, OwnBy(pool, proc, roles), Nil \notin DOMAIN pool
    PROVE  Once(pool, roles)
<1> SUFFICES ASSUME NEW o \in DOMAIN pool
             PROVE  pool[o] + Cardinality(Holders(o, roles)) = 1
  BY DEF Once
<1>1. CASE pool[o] = 0
  <2>1. PICK p \in Proc, f \in roles : proc[p][f] = o
    BY <1>1 DEF OwnBy
  <2>2. Holders(o, roles) = {<<p, f>>}
    <3>1. ASSUME NEW x \in Holders(o, roles)
          PROVE  x = <<p, f>>
      <4>1. x \in Proc \X roles /\ proc[x[1]][x[2]] = o
        BY <3>1 DEF Holders
      <4>2. x[1] = p /\ x[2] = f
        BY <2>1, <4>1 DEF OwnBy
      <4> QED
        BY <4>1, <4>2
    <3>2. <<p, f>> \in Holders(o, roles)
      BY <2>1 DEF Holders
    <3> QED
      BY <3>1, <3>2
  <2>3. Cardinality(Holders(o, roles)) = 1
    BY <2>2, FS_Singleton
  <2> QED
    BY <1>1, <2>3
<1>2. CASE pool[o] = 1
  <2>1. Holders(o, roles) = {}
    BY <1>2 DEF Holders, OwnBy
  <2> QED
    BY <1>2, <2>1, FS_EmptySet
<1> QED
  BY <1>1, <1>2 DEF OwnBy

LEMMA LeastIsFree ==
    ASSUME NEW pool, NEW o \in DOMAIN pool, DOMAIN pool \subseteq Nat, pool[o] > 0
    PROVE  Least(pool) \in DOMAIN pool /\ pool[Least(pool)] > 0
<1> DEFINE F == {x \in DOMAIN pool : pool[x] > 0}
<1>1. F \in SUBSET Nat /\ F # {}
  OBVIOUS
<1>2. Min(F) \in F
  BY <1>1, MinIsLeast, Zenon
<1> QED
  BY <1>2 DEF Least

\* A slice for the empty role f of p.
LEMMA FreeSlice ==
    ASSUME slices \in [Slice -> Nat], OwnBy(slices, proc, Roles),
           NEW p \in Proc, NEW f \in Roles, proc[p][f] = Nil
    PROVE  Least(slices) \in Slice /\ slices[Least(slices)] = 1
<1> DEFINE H == (Proc \X Roles) \ {<<p, f>>}
           held == [x \in H |-> proc[x[1]][x[2]]]
           T == {o \in Slice : slices[o] = 0}
<1>1. IsFiniteSet(H) /\ Cardinality(H) < Cardinality(Slice) /\ IsFiniteSet(Slice)
  <2>1. <<p, f>> \in Proc \X Roles
    OBVIOUS
  <2>2. IsFiniteSet(H) /\ Cardinality(H) = Cardinality(Proc \X Roles) - 1
    BY <2>1, Sizes, FS_RemoveElement
  <2> QED
    BY <2>2, Sizes
<1>2. Nil \notin Slice
  BY RequestsAssumption, Sizes DEF Slice
<1>3. ASSUME NEW o \in T
      PROVE  \E x \in H : held[x] = o
  <2>1. PICK x \in Proc, g \in Roles : proc[x][g] = o
    BY <1>3 DEF OwnBy
  <2>2. <<x, g>> \in H /\ held[<<x, g>>] = o
    BY <2>1, <1>2
  <2> QED
    BY <2>2
<1>4. PICK o \in Slice : o \notin T
  <2> HIDE DEF H, held
  <2> QED
    BY <1>1, <1>3, OneIsFree
<1>5. Slice \subseteq Nat /\ DOMAIN slices = Slice /\ slices[o] > 0
  BY <1>4, Sizes DEF Slice
<1>6. Least(slices) \in Slice /\ slices[Least(slices)] > 0
  BY <1>5, LeastIsFree
<1> QED
  BY <1>6 DEF OwnBy

\* Two slices, for the empty roles q and h of p.
LEMMA TwoFreeSlices ==
    ASSUME slices \in [Slice -> Nat], OwnBy(slices, proc, Roles),
           NEW p \in Proc, proc[p]["q"] = Nil, proc[p]["h"] = Nil
    PROVE  /\ Least(slices) \in Slice /\ slices[Least(slices)] = 1
           /\ Least2(slices) \in Slice /\ slices[Least2(slices)] = 1
           /\ Least2(slices) # Least(slices)
<1> DEFINE H == (Proc \X Roles) \ {<<p, "h">>}
           held == [x \in H |-> IF x = <<p, "q">> THEN Least(slices) ELSE proc[x[1]][x[2]]]
           T == {o \in Slice : slices[o] = 0 \/ o = Least(slices)}
<1>1. Least(slices) \in Slice /\ slices[Least(slices)] = 1
  BY FreeSlice DEF Roles
<1>2. IsFiniteSet(H) /\ Cardinality(H) < Cardinality(Slice) /\ IsFiniteSet(Slice)
  <2>1. <<p, "h">> \in Proc \X Roles
    BY DEF Roles
  <2>2. IsFiniteSet(H) /\ Cardinality(H) = Cardinality(Proc \X Roles) - 1
    BY <2>1, Sizes, FS_RemoveElement
  <2> QED
    BY <2>2, Sizes
<1>3. Nil \notin Slice
  BY RequestsAssumption, Sizes DEF Slice
<1>4. ASSUME NEW o \in T
      PROVE  \E x \in H : held[x] = o
  <2>1. CASE o = Least(slices)
    <3>1. <<p, "q">> \in H /\ held[<<p, "q">>] = o
      BY <2>1 DEF Roles
    <3> QED
      BY <3>1
  <2>2. CASE slices[o] = 0
    <3>1. PICK x \in Proc, g \in Roles : proc[x][g] = o
      BY <2>2, <1>4 DEF OwnBy
    <3>2. <<x, g>> \in H /\ <<x, g>> # <<p, "q">>
      BY <3>1, <1>3, <1>4
    <3>3. held[<<x, g>>] = o
      BY <3>1, <3>2
    <3> QED
      BY <3>2, <3>3
  <2> QED
    BY <1>4, <2>1, <2>2
<1>5. PICK o \in Slice : o \notin T
  <2> HIDE DEF H, held
  <2> QED
    BY <1>2, <1>4, OneIsFree
<1>6. Slice \subseteq Nat /\ DOMAIN slices = Slice /\ slices[o] > 0 /\ o # Least(slices)
  BY <1>5, Sizes DEF Slice
<1>7. Least2(slices) \in {x \in DOMAIN slices : slices[x] > 0} \ {Least(slices)}
  <2>1. /\ ({x \in DOMAIN slices : slices[x] > 0} \ {Least(slices)}) \in SUBSET Nat
        /\ ({x \in DOMAIN slices : slices[x] > 0} \ {Least(slices)}) # {}
    BY <1>6
  <2> QED
    BY <2>1, MinIsLeast, Zenon DEF Least2
<1> QED
  BY <1>1, <1>6, <1>7 DEF OwnBy

\* A buffer or response for p that has none.
LEMMA FreeObj ==
    ASSUME NEW pool \in [Obj -> Nat], NEW f, OwnBy(pool, proc, {f}),
           NEW p \in Proc, proc[p][f] = Nil
    PROVE  Least(pool) \in Obj /\ pool[Least(pool)] = 1
<1> DEFINE H == Proc \ {p}
           held == [x \in H |-> proc[x][f]]
           T == {o \in Obj : pool[o] = 0}
<1>1. IsFiniteSet(H) /\ Cardinality(H) < Cardinality(Obj) /\ IsFiniteSet(Obj)
  <2>1. IsFiniteSet(H) /\ Cardinality(H) = Cardinality(Proc) - 1
    BY RequestsAssumption, FS_RemoveElement
  <2> QED
    BY <2>1, Sizes
<1>2. Nil \notin Obj
  BY RequestsAssumption, Sizes DEF Obj
<1>3. ASSUME NEW o \in T
      PROVE  \E x \in H : held[x] = o
  <2>1. PICK x \in Proc : proc[x][f] = o
    BY <1>3 DEF OwnBy
  <2>2. x \in H /\ held[x] = o
    BY <2>1, <1>2
  <2> QED
    BY <2>2
<1>4. PICK o \in Obj : o \notin T
  <2> HIDE DEF H, held
  <2> QED
    BY <1>1, <1>3, OneIsFree
<1>5. Obj \subseteq Nat /\ DOMAIN pool = Obj /\ pool[o] > 0
  BY <1>4, Sizes DEF Obj
<1>6. Least(pool) \in Obj /\ pool[Least(pool)] > 0
  BY <1>5, LeastIsFree
<1> QED
  BY <1>6 DEF OwnBy

\* An entry nobody has, for p that has none.
LEMMA FreeId ==
    ASSUME \A k \in Key : store[k] # Nil => k \in Ruled,
           NEW p \in Proc, proc[p].e = Nil
    PROVE  /\ NewId \in EntryId
           /\ \A k \in Key : store[k] # NewId
           /\ \A x \in Proc : proc[x].e # NewId
<1> DEFINE K == {k \in Ruled : store[k] # Nil}
           P == {x \in Proc : proc[x].e # Nil}
           A == {store[k] : k \in K}
           B == {proc[x].e : x \in P}
           F == EntryId \ ({store[k] : k \in Key} \cup {proc[x].e : x \in Proc})
<1>1. IsFiniteSet(A) /\ Cardinality(A) <= Cardinality(Ruled)
  <2>1. IsFiniteSet(K) /\ Cardinality(K) <= Cardinality(Ruled)
    BY RequestsAssumption, FS_Subset
  <2>2. [k \in K |-> store[k]] \in Surjection(K, A)
    BY DEF Surjection
  <2>3. IsFiniteSet(A) /\ Cardinality(A) <= Cardinality(K)
    BY <2>1, <2>2, FS_Surjection
  <2> QED
    BY <2>1, <2>3, FS_CardinalityType, Sizes
<1>2. IsFiniteSet(B) /\ Cardinality(B) < Cardinality(Proc)
  <2>1. /\ IsFiniteSet(Proc \ {p}) /\ Cardinality(Proc \ {p}) = Cardinality(Proc) - 1
        /\ P \in SUBSET (Proc \ {p})
    BY RequestsAssumption, FS_RemoveElement
  <2>2. IsFiniteSet(P) /\ Cardinality(P) <= Cardinality(Proc) - 1
    BY <2>1, FS_Subset
  <2>3. [x \in P |-> proc[x].e] \in Surjection(P, B)
    BY DEF Surjection
  <2>4. IsFiniteSet(B) /\ Cardinality(B) <= Cardinality(P)
    BY <2>2, <2>3, FS_Surjection
  <2> QED
    BY <2>2, <2>4, FS_CardinalityType, Sizes
<1>3. IsFiniteSet(A \cup B) /\ Cardinality(A \cup B) < Cardinality(EntryId)
  <2>1. /\ IsFiniteSet(A \cup B)
        /\ Cardinality(A \cup B) = Cardinality(A) + Cardinality(B) - Cardinality(A \cap B)
    BY <1>1, <1>2, FS_Union
  <2>2. IsFiniteSet(A \cap B)
    BY <1>1, FS_Intersection
  <2>3. Cardinality(A) \in Nat /\ Cardinality(B) \in Nat /\ Cardinality(A \cap B) \in Nat
    BY <1>1, <1>2, <2>2, FS_CardinalityType
  <2> HIDE DEF A, B
  <2> QED
    BY <1>1, <1>2, <2>1, <2>3, Sizes
<1>4. PICK o \in EntryId : o \notin A \cup B
  <2> HIDE DEF A, B
  <2>1. CASE EntryId \subseteq A \cup B
    <3>1. Cardinality(EntryId) <= Cardinality(A \cup B)
      BY <1>3, <2>1, FS_Subset
    <3> QED
      BY <1>3, <3>1, FS_CardinalityType, Sizes
  <2> QED
    BY <2>1
<1>5. Nil \notin EntryId /\ EntryId \subseteq Nat
  BY RequestsAssumption, Sizes DEF EntryId
<1>6. o \in F
  BY <1>4, <1>5
<1>7. F \in SUBSET Nat
  BY <1>5
<1>8. Min(F) \in F
  <2> HIDE DEF F
  <2> QED
    BY <1>6, <1>7, MinIsLeast
<1> QED
  BY <1>8 DEF NewId

-------------------------------------------------------------------------------
\* The inductive invariant, spread.
LEMMA Types ==
    ASSUME IInv
    PROVE  /\ epoch \in Nat /\ Nil \notin Nat
           /\ Nil \notin Slice /\ Nil \notin Obj /\ Nil \notin EntryId
           /\ \A p \in Proc :
                /\ proc[p].q \in Slice \cup {Nil} /\ proc[p].h \in Slice \cup {Nil}
                /\ proc[p].uh \in Slice \cup {Nil}
                /\ proc[p].resp \in Obj \cup {Nil} /\ proc[p].buf \in Obj \cup {Nil}
                /\ proc[p].e \in EntryId \cup {Nil}
                /\ proc[p].q = proc[p]["q"] /\ proc[p].h = proc[p]["h"]
                /\ proc[p].uh = proc[p]["uh"]
                /\ proc[p].resp = proc[p]["resp"] /\ proc[p].buf = proc[p]["buf"]
BY RequestsAssumption, Sizes DEF IInv, TypeOK, ProcState, Slice, Obj, EntryId

\* No step of one process touches what another has: what the invariant says of the
\* others stays so, when entries only take later answers to the same question.
Later(e) ==
    \A k \in Key : Good(e, k) =>
        Good(e, k)' /\ ent[e].payload.body.epoch <= ent'[e].payload.body.epoch

ContentsKept(p) ==
    /\ \A o \in Slice : inSlice'[o] # inSlice[o] => slices[o] = 1 \/ \E f \in Roles : proc[p][f] = o
    /\ \A o \in Obj : inBuf'[o] # inBuf[o] => bufs[o] = 1 \/ proc[p]["buf"] = o
    /\ \A o \in Obj : inResp'[o] # inResp[o] => resps[o] = 1 \/ proc[p]["resp"] = o

LEMMA OthersKeep ==
    ASSUME IInv, TypeOK', epoch' = epoch, NEW p \in Proc, NEW x \in Proc \ {p},
           Others(proc, proc', p), ContentsKept(p),
           proc[x].e # Nil => Later(proc[x].e)
    PROVE  ProcInv(x)'
<1> USE DEF Others, ContentsKept
<1> DEFINE s == proc[x]
<1>1. ProcInv(x)
  BY DEF IInv
<1>2. /\ s.q \in Slice => inSlice'[s.q] = inSlice[s.q]
      /\ s.h \in Slice => inSlice'[s.h] = inSlice[s.h]
      /\ s.uh \in Slice => inSlice'[s.uh] = inSlice[s.uh]
  <2>1. ASSUME NEW f \in Roles, s[f] \in Slice
        PROVE  inSlice'[s[f]] = inSlice[s[f]]
    <3>1. slices[s[f]] = 0 /\ \A g \in Roles : proc[p][g] # s[f]
      BY <2>1, Types DEF IInv, Owned, OwnBy, Roles, TypeOK
    <3> QED
      BY <2>1, <3>1
  <2> QED
    BY <2>1, Types DEF Roles
<1>3. s.buf \in Obj => inBuf'[s.buf] = inBuf[s.buf]
  <2>1. s.buf \in Obj => bufs[s.buf] = 0 /\ proc[p]["buf"] # s.buf
    BY Types DEF IInv, Owned, OwnBy, TypeOK
  <2> QED
    BY <2>1
<1>4. s.resp \in Obj => inResp'[s.resp] = inResp[s.resp]
  <2>1. s.resp \in Obj => resps[s.resp] = 0 /\ proc[p]["resp"] # s.resp
    BY Types DEF IInv, Owned, OwnBy, TypeOK
  <2> QED
    BY <2>1
<1>5. s.e # Nil => /\ Good(s.e, s.key)'
                   /\ ent[s.e].payload.body.epoch <= ent'[s.e].payload.body.epoch
                   /\ ent'[s.e].payload.body.epoch <= epoch
  <2>1. s.e # Nil => s.key \in Key /\ s.pc # "idle" /\ Good(s.e, s.key)
    BY <1>1 DEF ProcInv, Idle
  <2> QED
    BY <2>1 DEF Later, Good, Sound
<1>6. s.e # Nil => /\ ent[s.e].payload.body.epoch \in Nat /\ ent'[s.e].payload.body.epoch \in Nat
  BY <1>5, <1>1 DEF ProcInv, Good, Sound, Entry, Payload, Answer
<1>7. /\ s.lm \in Nat /\ s.e # Nil /\ s.lm <= ent[s.e].payload.body.epoch
        => s.lm <= ent'[s.e].payload.body.epoch
  BY <1>5, <1>6
<1>8. /\ epoch \in Nat
      /\ s.e # Nil /\ ent[s.e].payload.body.epoch = epoch => ent'[s.e].payload.body.epoch = epoch
  BY <1>5, <1>6, Types
<1>9. s.e \in EntryId => s.e # Nil
  BY Types
<1> QED
  BY <1>1, <1>2, <1>3, <1>4, <1>5, <1>7, <1>8, <1>9 DEF ProcInv, Upstream

\* A step of p that leaves the pools alone but for what p has or what is free.
LEMMA StepKeeps ==
    ASSUME IInv, TypeOK', Owned', Stored', epoch' = epoch, NEW p \in Proc,
           Others(proc, proc', p), ContentsKept(p),
           \A x \in Proc \ {p} : proc[x].e # Nil => Later(proc[x].e),
           ProcInv(p)'
    PROVE  IInv'
<1>1. \A x \in Proc \ {p} : ProcInv(x)'
  BY OthersKeep
<1> QED
  BY <1>1 DEF IInv

LEMMA SameEntries ==
    ASSUME IInv, ent' = ent, epoch' = epoch
    PROVE  /\ \A x \in Proc : proc[x].e # Nil => Later(proc[x].e)
           /\ store' = store => Stored'
<1>1. \A e, k : Good(e, k) => ent[e].payload.body.epoch \in Nat
  BY DEF Good, Sound, Entry, Payload, Answer
<1>2. \A e, k : Good(e, k)' <=> Good(e, k)
  BY DEF Good, Sound
<1>3. \A e : Later(e)
  BY <1>1, <1>2 DEF Later
<1> QED
  BY <1>2, <1>3 DEF IInv, Stored

LEMMA BeginKeeps ==
    ASSUME IInv, NEW r \in Req, NEW k \in Key, Begin(r, k)
    PROVE  IInv'
<1> DEFINE cached == enabled /\ k \in Ruled
           e == IF cached THEN store[k] ELSE Nil
           q == Least(slices)
<1>0. /\ r \in Proc /\ proc[r] = Idle /\ enabled \in BOOLEAN /\ epoch' = epoch /\ ent' = ent
      /\ store' = store
  BY DEF Begin, IInv, ProcInv, At, Proc, TypeOK
<1>1. Stored' /\ \A x \in Proc : proc[x].e # Nil => Later(proc[x].e)
  BY <1>0, SameEntries
<1>2. CASE e # Nil
  <2> DEFINE s == [Idle EXCEPT !.pc = "unpack", !.key = k, !.e = e, !.lm = ent[e].at]
  <2>1. /\ proc' = [proc EXCEPT ![r] = s]
        /\ UNCHANGED <<enabled, epoch, store, ent, pools>>
    BY <1>2 DEF Begin, Step, pools
  <2>2. /\ Good(e, k) /\ e \in EntryId /\ ent[e].at \in Nat
        /\ ent[e].at <= ent[e].payload.body.epoch
    BY <1>2 DEF IInv, Stored, TypeOK, Good, Sound, Entry
  <2>3. s \in ProcState
    BY <2>2 DEF ProcState, Idle
  <2>4. TypeOK'
    BY <2>1, <2>3 DEF IInv, TypeOK, pools
  <2>5. proc'[r] = s /\ Others(proc, proc', r)
    BY <1>0, <2>1 DEF IInv, TypeOK, Others
  <2>6. Owned'
    <3>1. /\ Keeps(proc, proc', r, {"q", "h", "uh"})
          /\ Keeps(proc, proc', r, {"buf"}) /\ Keeps(proc, proc', r, {"resp"})
      BY <1>0, <2>5 DEF Idle, Keeps
    <3> QED
      BY <1>0, <2>1, <2>5, <3>1, OwnSame DEF IInv, Owned, pools
  <2>7. ProcInv(r)'
    <3>1. r \in Req /\ r \notin Worker /\ k \in Ruled
      BY <1>0, <1>2, RequestsAssumption
    <3>2. PICK t, x : t = proc'[r] /\ x = e
      OBVIOUS
    <3>3. \A y, z : Good(y, z) => Good(y, z)'
      BY <2>1 DEF Good, Sound
    <3>4. /\ t.pc = "unpack" /\ t.key = k /\ t.e = x /\ t.lm = ent[x].at
          /\ t.q = Nil /\ t.h = Nil /\ t.uh = Nil /\ t.buf = Nil /\ t.resp = Nil
          /\ t.val = Nil /\ t.out = Nil /\ ~ t.cached
      BY <2>5, <3>2 DEF Idle
    <3>5. x \in EntryId /\ ent[x].at \in Nat /\ ent[x].at <= ent[x].payload.body.epoch
      BY <2>2, <3>2
    <3>6. Good(x, k)' /\ ent' = ent
      BY <2>1, <2>2, <3>2, <3>3
    <3> HIDE DEF s, e, cached
    <3> QED
      BY <3>1, <3>2, <3>4, <3>5, <3>6 DEF ProcInv, Upstream
  <2>8. ContentsKept(r)
    BY <2>1 DEF ContentsKept, pools
  <2> QED
    BY <1>0, <1>1, <2>1, <2>4, <2>5, <2>6, <2>7, <2>8, StepKeeps
<1>3. CASE e = Nil
  <2> DEFINE s == [Idle EXCEPT !.pc = "ask", !.key = k, !.cached = cached, !.q = q]
  <2>1. /\ proc' = [proc EXCEPT ![r] = s]
        /\ slices' = Taken(slices, {q})
        /\ inSlice' = [inSlice EXCEPT ![q] = [of |-> "req", is |-> k]]
        /\ UNCHANGED <<enabled, epoch, store, ent, bufs, resps, inBuf, inResp>>
    BY <1>3 DEF Begin, Step
  <2>2. q \in Slice /\ slices[q] = 1
    <3>1. proc[r]["q"] = Nil
      BY <1>0 DEF Idle
    <3> QED
      BY <1>0, <3>1, FreeSlice DEF IInv, Owned, Roles, TypeOK
  <2>3. s \in ProcState
    BY <1>0, <2>2 DEF ProcState, Idle
  <2>4. proc'[r] = s /\ Others(proc, proc', r)
    BY <1>0, <2>1 DEF IInv, TypeOK, Others
  <2>5. slices' \in [Slice -> Nat] /\ inSlice' \in [Slice -> Pairs \cup {Nil}]
    BY <2>1, <2>2 DEF IInv, TypeOK, Taken, Pairs
  <2>6. TypeOK'
    BY <2>1, <2>3, <2>5 DEF IInv, TypeOK
  <2>7. Owned'
    <3>1. Takes(slices, {q}, proc, proc', r, {"q", "h", "uh"})
      <4>1. /\ proc[r]["q"] = Nil /\ proc'[r]["q"] = q
            /\ proc[r]["h"] = Nil /\ proc'[r]["h"] = Nil
            /\ proc[r]["uh"] = Nil /\ proc'[r]["uh"] = Nil
        BY <1>0, <2>4 DEF Idle
      <4>2. Nil # q /\ DOMAIN slices = Slice /\ Nil \notin Slice
        BY <2>2, Types DEF IInv, TypeOK
      <4> HIDE DEF q
      <4> QED
        BY <2>2, <4>1, <4>2 DEF Takes
    <3>2. Keeps(proc, proc', r, {"buf"}) /\ Keeps(proc, proc', r, {"resp"})
      BY <1>0, <2>4 DEF Idle, Keeps
    <3> HIDE DEF q
    <3> QED
      BY <1>0, <2>1, <2>4, <3>1, <3>2, OwnSame, OwnTake DEF IInv, Owned
  <2>8. ProcInv(r)'
    <3>1. inSlice'[q] = [of |-> "req", is |-> k]
      BY <2>1, <2>2 DEF IInv, TypeOK
    <3>2. /\ proc'[r].pc = "ask" /\ proc'[r].key = k /\ proc'[r].q = q
          /\ proc'[r].h = Nil /\ proc'[r].uh = Nil /\ proc'[r].buf = Nil /\ proc'[r].resp = Nil
          /\ proc'[r].e = Nil /\ proc'[r].val = Nil /\ proc'[r].out = Nil
          /\ proc'[r].cached => k \in Ruled
      BY <2>4 DEF Idle
    <3>3. r \notin Worker
      BY RequestsAssumption
    <3> HIDE DEF q, s
    <3> QED
      BY <2>2, <3>1, <3>2, <3>3 DEF ProcInv, Upstream
  <2>9. ContentsKept(r)
    <3> HIDE DEF q
    <3> QED
      BY <2>1, <2>2 DEF IInv, TypeOK, ContentsKept
  <2> QED
    BY <1>0, <1>1, <2>1, <2>4, <2>6, <2>7, <2>8, <2>9, StepKeeps
<1> QED
  BY <1>2, <1>3

LEMMA UnpackKeeps ==
    ASSUME IInv, NEW p \in Proc, Unpack(p)
    PROVE  IInv'
<1> DEFINE q == Least(slices)
           h == Least2(slices)
           v == ent[proc[p].e].payload
           s == [proc[p] EXCEPT !.pc = IF p \in Req THEN "write" ELSE "ask",
                                !.q = q, !.h = h, !.val = v,
                                !.e = IF p \in Req THEN Nil ELSE @]
<1>1. /\ proc[p].pc = "unpack" /\ proc[p] \in ProcState
      /\ proc' = [proc EXCEPT ![p] = s]
      /\ slices' = Taken(slices, {q, h})
      /\ inSlice' = [inSlice EXCEPT ![q] = [of |-> "req", is |-> v.key],
                                    ![h] = [of |-> "payload", is |-> v.headers]]
      /\ UNCHANGED <<enabled, epoch, store, ent, bufs, resps, inBuf, inResp>>
  BY DEF Unpack, Step, At, IInv, TypeOK
<1>2. Stored' /\ \A x \in Proc : proc[x].e # Nil => Later(proc[x].e)
  BY <1>1, SameEntries
<1>3. /\ proc[p].q = Nil /\ proc[p].h = Nil /\ proc[p].uh = Nil
      /\ proc[p].buf = Nil /\ proc[p].resp = Nil /\ proc[p].out = Nil
      /\ proc[p].key \in Key /\ proc[p].e \in EntryId /\ proc[p].e # Nil
      /\ p \in Req => proc[p].lm \in Nat /\ proc[p].lm <= v.body.epoch
      /\ proc[p].cached => proc[p].key \in Ruled
      /\ Good(proc[p].e, proc[p].key)
  BY <1>1, Types DEF IInv, ProcInv
<1>4. /\ v \in Payload /\ v.key = proc[p].key /\ v.key \in Key /\ v.headers \in Answer
      /\ v.headers = v.body /\ v.body.key = proc[p].key
  BY <1>3 DEF Good, Sound, Entry, Payload
<1>5. /\ q \in Slice /\ slices[q] = 1 /\ h \in Slice /\ slices[h] = 1 /\ h # q
  <2>1. slices \in [Slice -> Nat] /\ OwnBy(slices, proc, Roles)
    BY DEF IInv, TypeOK, Owned, Roles
  <2>2. proc[p]["q"] = Nil /\ proc[p]["h"] = Nil
    BY <1>3, Types
  <2> QED
    BY <2>1, <2>2, TwoFreeSlices
<1> HIDE DEF q, h, v
<1>6. s \in ProcState
  <2>1. CASE p \in Req
    BY ZenonT(30), <1>1, <1>4, <1>5, <2>1 DEF ProcState
  <2>2. CASE p \notin Req
    BY <1>1, <1>3, <1>4, <1>5, <2>2 DEF ProcState
  <2> QED
    BY <2>1, <2>2
<1>7. proc'[p] = s /\ Others(proc, proc', p)
  BY <1>1 DEF IInv, TypeOK, Others
<1>8. /\ s.pc = IF p \in Req THEN "write" ELSE "ask"
      /\ s.q = q /\ s.h = h /\ s.val = v /\ s.e = (IF p \in Req THEN Nil ELSE proc[p].e)
      /\ s.uh = Nil /\ s.buf = Nil /\ s.resp = Nil /\ s.out = Nil
      /\ s.key = proc[p].key /\ s.lm = proc[p].lm /\ s.cached = proc[p].cached
  BY <1>1, <1>3 DEF ProcState
<1> HIDE DEF s
<1>9. /\ inSlice' \in [Slice -> Pairs \cup {Nil}] /\ slices' \in [Slice -> Nat]
      /\ inSlice'[q] = [of |-> "req", is |-> v.key]
      /\ inSlice'[h] = [of |-> "payload", is |-> v.headers]
      /\ \A o \in Slice \ {q, h} : inSlice'[o] = inSlice[o]
  <2>1. [of |-> "req", is |-> v.key] \in Pairs /\ [of |-> "payload", is |-> v.headers] \in Pairs
    BY <1>4 DEF Pairs
  <2> QED
    BY <1>1, <1>5, <2>1 DEF IInv, TypeOK, Taken
<1>10. TypeOK'
  BY <1>1, <1>6, <1>9 DEF IInv, TypeOK
<1>11. Owned'
  <2>1. Takes(slices, {q, h}, proc, proc', p, {"q", "h", "uh"})
    <3>1. /\ proc[p]["q"] = Nil /\ proc'[p]["q"] = q
          /\ proc[p]["h"] = Nil /\ proc'[p]["h"] = h
          /\ proc[p]["uh"] = Nil /\ proc'[p]["uh"] = Nil
      BY <1>3, <1>6, <1>7, <1>8, Types DEF ProcState
    <3>2. DOMAIN slices = Slice /\ Nil \notin Slice
      BY Types DEF IInv, TypeOK
    <3> QED
      BY <1>5, <3>1, <3>2 DEF Takes
  <2>2. Keeps(proc, proc', p, {"buf"}) /\ Keeps(proc, proc', p, {"resp"})
    BY <1>1, <1>3, <1>6, <1>7, <1>8 DEF Keeps, ProcState
  <2> QED
    BY <1>1, <1>7, <2>1, <2>2, OwnSame, OwnTake DEF IInv, Owned
<1>12. ProcInv(p)'
  <2>1. v # Nil /\ (p \in Req <=> p \notin Worker)
    BY <1>4, RequestsAssumption DEF Proc
  <2>2. \A e, k : Good(e, k)' <=> Good(e, k)
    BY <1>1 DEF Good, Sound
  <2> QED
    BY <1>1, <1>3, <1>4, <1>5, <1>7, <1>8, <1>9, <2>1, <2>2 DEF ProcInv, Upstream
<1>13. ContentsKept(p)
  BY <1>1, <1>5, <1>9 DEF ContentsKept
<1> QED
  BY <1>1, <1>2, <1>7, <1>10, <1>11, <1>12, <1>13, StepKeeps

\* A step of p that leaves the pools, and what p has of them, as they are.
HasSame(p) == \A f \in {"q", "h", "uh", "buf", "resp"} : proc'[p][f] = proc[p][f]

LEMMA StillKeeps ==
    ASSUME IInv, NEW p \in Proc, HasSame(p), Others(proc, proc', p),
           proc' \in [Proc -> ProcState],
           enabled' = enabled, epoch' = epoch, UNCHANGED pools,
           store' \in [Key -> EntryId \cup {Nil}], ent' \in [EntryId -> Entry \cup {Nil}],
           Stored', \A x \in Proc \ {p} : proc[x].e # Nil => Later(proc[x].e),
           ProcInv(p)'
    PROVE  IInv'
<1>1. TypeOK'
  BY DEF IInv, TypeOK, pools
<1>2. Owned'
  <2>1. /\ Keeps(proc, proc', p, {"q", "h", "uh"})
        /\ Keeps(proc, proc', p, {"buf"}) /\ Keeps(proc, proc', p, {"resp"})
    BY DEF Keeps, HasSame
  <2> QED
    BY <2>1, OwnSame DEF IInv, Owned, pools
<1>3. ContentsKept(p)
  BY DEF ContentsKept, pools
<1> QED
  BY <1>1, <1>2, <1>3, StepKeeps

\* From any place a process may go to its releases.
LEMMA PutAwayKeeps ==
    ASSUME IInv, NEW p \in Proc, proc'[p] = [proc[p] EXCEPT !.pc = "put"],
           proc[p].pc \notin {"idle", "unpack"},
           proc' \in [Proc -> ProcState], Others(proc, proc', p), UNCHANGED pools,
           UNCHANGED <<enabled, epoch, store, ent>>
    PROVE  IInv'
<1>1. /\ Stored' /\ \A x \in Proc : proc[x].e # Nil => Later(proc[x].e)
      /\ \A e, k : Good(e, k)' <=> Good(e, k)
  BY SameEntries DEF Good, Sound
<1>2. /\ HasSame(p) /\ proc'[p].pc = "put" /\ proc'[p].key = proc[p].key
      /\ proc'[p].cached = proc[p].cached /\ proc'[p].e = proc[p].e
      /\ proc'[p].out = proc[p].out /\ proc'[p].lm = proc[p].lm
  BY DEF HasSame, IInv, TypeOK, ProcState
<1>3. ProcInv(p)
  BY DEF IInv
<1>4. ProcInv(p)'
  <2>1. proc[p].e # Nil => Good(proc[p].e, proc[p].key)
    BY <1>3 DEF ProcInv
  <2>2. proc[p].out # Nil =>
              /\ proc[p].lm \in Nat
              /\ proc[p].out.headers = proc[p].out.body /\ proc[p].out.body.key = proc[p].key
              /\ proc[p].lm <= proc[p].out.body.epoch
    BY <1>3 DEF ProcInv
  <2>3. /\ proc[p].pc # "idle" => proc[p].key \in Key
        /\ proc[p].cached => proc[p].key \in Ruled
        /\ p \in Worker /\ proc[p].pc # "idle" => proc[p].e \in EntryId
        /\ p \in Req /\ proc[p].pc # "unpack" => proc[p].e = Nil
    BY <1>3 DEF ProcInv
  <2> QED
    BY <1>1, <1>2, <2>1, <2>2, <2>3 DEF ProcInv, Upstream
<1> QED
  BY <1>1, <1>2, <1>4, StillKeeps DEF IInv, TypeOK

LEMMA AskKeeps ==
    ASSUME IInv, NEW p \in Proc, Ask(p)
    PROVE  IInv'
<1> DEFINE o == Least(resps)
<1>1. /\ proc[p].pc = "ask" /\ proc[p] \in ProcState /\ epoch' = epoch /\ ent' = ent
      /\ store' = store
      /\ UNCHANGED <<enabled, epoch, store, ent, slices, bufs, inSlice, inBuf>>
  BY DEF Ask, At, IInv, TypeOK
<1>2. Stored' /\ \A x \in Proc : proc[x].e # Nil => Later(proc[x].e)
  BY <1>1, SameEntries
<1>3. /\ ProcInv(p) /\ proc[p].resp = Nil /\ proc[p].uh = Nil /\ proc[p].buf = Nil
      /\ proc[p].q \in Slice /\ inSlice[proc[p].q].is = proc[p].key
      /\ proc[p].key \in Key /\ proc[p].out = Nil
      /\ (p \in Req <=> p \notin Worker)
  <2>1. ProcInv(p)
    BY DEF IInv
  <2> QED
    BY <1>1, <2>1, RequestsAssumption DEF ProcInv, Proc
<1>4. \A e, k : Good(e, k)' <=> Good(e, k)
  BY <1>1 DEF Good, Sound
<1>5. ASSUME NEW v \in Ver \cup {Bad},
             Step(p, [proc[p] EXCEPT !.pc = "receive", !.resp = o]),
             resps' = Taken(resps, {o}),
             inResp' = [inResp EXCEPT ![o] =
                          [key |-> inSlice[proc[p].q].is, ver |-> v, epoch |-> epoch]]
      PROVE  IInv'
  <2> DEFINE s == [proc[p] EXCEPT !.pc = "receive", !.resp = o]
             a == [key |-> proc[p].key, ver |-> v, epoch |-> epoch]
  <2>1. o \in Obj /\ resps[o] = 1
    <3>1. resps \in [Obj -> Nat] /\ OwnBy(resps, proc, {"resp"}) /\ proc[p]["resp"] = Nil
      BY <1>3, Types DEF IInv, TypeOK, Owned
    <3> QED
      BY <3>1, FreeObj
  <2> HIDE DEF o
  <2>2. s \in ProcState
    BY <1>1, <2>1 DEF ProcState
  <2>3. proc'[p] = s /\ Others(proc, proc', p) /\ proc' \in [Proc -> ProcState]
    BY <1>5, <2>2 DEF IInv, TypeOK, Others, Step
  <2>4. /\ s.pc = "receive" /\ s.resp = o /\ s.q = proc[p].q /\ s.h = proc[p].h
        /\ s.uh = proc[p].uh /\ s.buf = proc[p].buf /\ s.out = proc[p].out /\ s.e = proc[p].e
        /\ s.key = proc[p].key /\ s.cached = proc[p].cached /\ s.val = proc[p].val
    BY <1>1 DEF ProcState
  <2> HIDE DEF s
  <2>5. a \in Answer /\ a.key = proc[p].key /\ a.epoch = epoch
    BY <1>3, Types DEF Answer
  <2>6. /\ resps' \in [Obj -> Nat] /\ inResp' \in [Obj -> Answer \cup {Nil}] /\ inResp'[o] = a
        /\ \A x \in Obj \ {o} : inResp'[x] = inResp[x]
    BY <1>3, <1>5, <2>1, <2>5 DEF IInv, TypeOK, Taken
  <2> HIDE DEF a
  <2>7. TypeOK'
    BY <1>1, <2>3, <2>6 DEF IInv, TypeOK
  <2>8. Owned'
    <3>1. Takes(resps, {o}, proc, proc', p, {"resp"})
      <4>1. proc[p]["resp"] = Nil /\ proc'[p]["resp"] = o
        BY <1>3, <2>2, <2>3, <2>4, Types DEF ProcState
      <4>2. DOMAIN resps = Obj /\ Nil \notin Obj
        BY Types DEF IInv, TypeOK
      <4> QED
        BY <2>1, <4>1, <4>2 DEF Takes
    <3>2. Keeps(proc, proc', p, {"buf"}) /\ Keeps(proc, proc', p, {"q", "h", "uh"})
      BY <1>1, <2>2, <2>3, <2>4 DEF Keeps, ProcState
    <3> QED
      BY <1>1, <1>5, <2>3, <3>1, <3>2, OwnSame, OwnTake DEF IInv, Owned
  <2>9. ProcInv(p)'
    BY <1>1, <1>3, <1>4, <2>1, <2>3, <2>4, <2>5, <2>6 DEF ProcInv, Upstream
  <2>10. ContentsKept(p)
    BY <1>1, <2>1, <2>6 DEF ContentsKept
  <2> QED
    BY <1>1, <1>2, <2>3, <2>7, <2>8, <2>9, <2>10, StepKeeps
<1>6. ASSUME Step(p, [proc[p] EXCEPT !.pc = "put"]), UNCHANGED <<resps, inResp>>
      PROVE  IInv'
  <2>1. /\ proc'[p] = [proc[p] EXCEPT !.pc = "put"] /\ Others(proc, proc', p)
        /\ proc' \in [Proc -> ProcState]
    BY <1>1, <1>6 DEF IInv, TypeOK, Others, Step, ProcState
  <2>2. UNCHANGED pools
    BY <1>1, <1>6 DEF pools
  <2> QED
    BY <1>1, <1>2, <1>3, <1>4, <2>1, <2>2, PutAwayKeeps
<1> QED
  BY <1>5, <1>6 DEF Ask

LEMMA ReceiveKeeps ==
    ASSUME IInv, NEW p \in Proc, Receive(p)
    PROVE  IInv'
<1> DEFINE h == Least(slices)
           b == Least(bufs)
           o == proc[p].resp
<1>1. /\ proc[p].pc = "receive" /\ proc[p] \in ProcState /\ epoch' = epoch /\ ent' = ent
      /\ store' = store /\ enabled' = enabled
  BY DEF Receive, At, IInv, TypeOK
<1>2. Stored' /\ \A x \in Proc : proc[x].e # Nil => Later(proc[x].e)
  BY <1>1, SameEntries
<1>3. /\ ProcInv(p) /\ o \in Obj /\ inResp[o] \in Answer
      /\ proc[p].uh = Nil /\ proc[p].buf = Nil
      /\ proc[p].q \in Slice /\ proc[p].key \in Key /\ proc[p].out = Nil
      /\ (p \in Req <=> p \notin Worker)
  <2>1. ProcInv(p)
    BY DEF IInv
  <2> QED
    BY <1>1, <2>1, RequestsAssumption DEF ProcInv, Upstream, Proc
<1>4. \A e, k : Good(e, k)' <=> Good(e, k)
  BY <1>1 DEF Good, Sound
<1>5. ASSUME Step(p, [proc[p] EXCEPT !.pc = "got", !.uh = h, !.buf = b]),
             slices' = Taken(slices, {h}), bufs' = Taken(bufs, {b}),
             inSlice' = [inSlice EXCEPT ![h] = [of |-> "resp", is |-> o]],
             inBuf' = [inBuf EXCEPT ![b] = inResp[o]],
             UNCHANGED <<resps, inResp>>
      PROVE  IInv'
  <2> DEFINE s == [proc[p] EXCEPT !.pc = "got", !.uh = h, !.buf = b]
  <2>1. h \in Slice /\ slices[h] = 1 /\ b \in Obj /\ bufs[b] = 1
    <3>1. /\ bufs \in [Obj -> Nat] /\ OwnBy(bufs, proc, {"buf"}) /\ proc[p]["buf"] = Nil
          /\ slices \in [Slice -> Nat] /\ OwnBy(slices, proc, Roles)
          /\ proc[p]["uh"] = Nil /\ "uh" \in Roles
      BY <1>3, Types DEF IInv, TypeOK, Owned, Roles
    <3> QED
      BY <3>1, FreeObj, FreeSlice
  <2> HIDE DEF h, b
  <2>2. s \in ProcState
    BY <1>1, <2>1 DEF ProcState
  <2>3. proc'[p] = s /\ Others(proc, proc', p) /\ proc' \in [Proc -> ProcState]
    BY <1>5, <2>2 DEF IInv, TypeOK, Others, Step
  <2>4. /\ s.pc = "got" /\ s.resp = o /\ s.q = proc[p].q /\ s.h = proc[p].h
        /\ s.uh = h /\ s.buf = b /\ s.out = proc[p].out /\ s.e = proc[p].e
        /\ s.key = proc[p].key /\ s.cached = proc[p].cached /\ s.val = proc[p].val
    BY <1>1 DEF ProcState
  <2> HIDE DEF s
  <2>5. /\ slices' \in [Slice -> Nat] /\ bufs' \in [Obj -> Nat]
        /\ inSlice' \in [Slice -> Pairs \cup {Nil}] /\ inBuf' \in [Obj -> Answer \cup {Nil}]
        /\ inSlice'[h] = [of |-> "resp", is |-> o] /\ inBuf'[b] = inResp[o]
        /\ \A x \in Slice \ {h} : inSlice'[x] = inSlice[x]
        /\ \A x \in Obj \ {b} : inBuf'[x] = inBuf[x]
    <3>1. [of |-> "resp", is |-> o] \in Pairs
      BY <1>3 DEF Pairs
    <3> QED
      BY <1>3, <1>5, <2>1, <3>1 DEF IInv, TypeOK, Taken
  <2>6. TypeOK'
    BY <1>1, <1>5, <2>3, <2>5 DEF IInv, TypeOK
  <2>7. Owned'
    <3>1. /\ proc[p]["uh"] = Nil /\ proc'[p]["uh"] = h
          /\ proc[p]["buf"] = Nil /\ proc'[p]["buf"] = b
          /\ proc'[p]["q"] = proc[p]["q"] /\ proc'[p]["h"] = proc[p]["h"]
          /\ proc'[p]["resp"] = proc[p]["resp"]
      BY <1>1, <1>3, <2>2, <2>3, <2>4, Types DEF ProcState
    <3>2. /\ DOMAIN slices = Slice /\ Nil \notin Slice
          /\ DOMAIN bufs = Obj /\ Nil \notin Obj
      BY Types DEF IInv, TypeOK
    <3>3. proc[p]["q"] # h /\ proc[p]["h"] # h
      BY <2>1, <3>2 DEF IInv, Owned, OwnBy
    <3>4. Takes(slices, {h}, proc, proc', p, {"q", "h", "uh"})
      BY <2>1, <3>1, <3>2, <3>3 DEF Takes
    <3>5. Takes(bufs, {b}, proc, proc', p, {"buf"})
      BY <2>1, <3>1, <3>2 DEF Takes
    <3>6. Keeps(proc, proc', p, {"resp"})
      BY <3>1 DEF Keeps
    <3> QED
      BY <1>5, <2>3, <3>4, <3>5, <3>6, OwnSame, OwnTake DEF IInv, Owned
  <2>8. ProcInv(p)'
    <3>1. proc[p].q # h
      BY <2>1, <1>3, Types DEF IInv, Owned, OwnBy, TypeOK
    <3> QED
      BY <1>1, <1>3, <1>4, <1>5, <2>1, <2>3, <2>4, <2>5, <3>1 DEF ProcInv, Upstream
  <2>9. ContentsKept(p)
    BY <1>5, <2>1, <2>5 DEF ContentsKept
  <2> QED
    BY <1>1, <1>2, <2>3, <2>6, <2>7, <2>8, <2>9, StepKeeps
<1>6. ASSUME Step(p, [proc[p] EXCEPT !.pc = "put", !.resp = Nil]),
             resps' = Given(resps, {o}), inResp' = Emptied(inResp, {o}),
             UNCHANGED <<slices, bufs, inSlice, inBuf>>
      PROVE  IInv'
  <2> DEFINE s == [proc[p] EXCEPT !.pc = "put", !.resp = Nil]
  <2>1. s \in ProcState
    BY <1>1 DEF ProcState
  <2>2. proc'[p] = s /\ Others(proc, proc', p) /\ proc' \in [Proc -> ProcState]
    BY <1>6, <2>1 DEF IInv, TypeOK, Others, Step
  <2>3. /\ s.pc = "put" /\ s.resp = Nil /\ s.q = proc[p].q /\ s.h = proc[p].h
        /\ s.uh = proc[p].uh /\ s.buf = proc[p].buf /\ s.out = proc[p].out /\ s.e = proc[p].e
        /\ s.key = proc[p].key /\ s.cached = proc[p].cached
    BY <1>1 DEF ProcState
  <2> HIDE DEF s
  <2>4. /\ resps' \in [Obj -> Nat] /\ inResp' \in [Obj -> Answer \cup {Nil}]
        /\ \A x \in Obj \ {o} : inResp'[x] = inResp[x]
    BY <1>6 DEF IInv, TypeOK, Given, Emptied
  <2>5. TypeOK'
    BY <1>1, <1>6, <2>2, <2>4 DEF IInv, TypeOK
  <2>6. Owned'
    <3>1. /\ proc'[p]["uh"] = proc[p]["uh"] /\ proc'[p]["buf"] = proc[p]["buf"]
          /\ proc'[p]["q"] = proc[p]["q"] /\ proc'[p]["h"] = proc[p]["h"]
          /\ proc'[p]["resp"] = Nil /\ proc[p]["resp"] = o
      BY <1>1, <1>3, <2>1, <2>2, <2>3, Types DEF ProcState
    <3>2. DOMAIN resps = Obj /\ Nil \notin Obj
      BY Types DEF IInv, TypeOK
    <3>3. Gives(resps, {o}, proc, proc', p, {"resp"})
      BY <3>1, <3>2 DEF Gives
    <3>4. Keeps(proc, proc', p, {"q", "h", "uh"}) /\ Keeps(proc, proc', p, {"buf"})
      BY <3>1 DEF Keeps
    <3> QED
      BY <1>6, <2>2, <3>3, <3>4, OwnSame, OwnGive DEF IInv, Owned
  <2>7. ProcInv(p)'
    BY <1>1, <1>3, <1>4, <2>2, <2>3 DEF ProcInv, Upstream
  <2>8. ContentsKept(p)
    BY <1>3, <1>6, <2>4, Types DEF ContentsKept
  <2> QED
    BY <1>1, <1>2, <2>2, <2>5, <2>6, <2>7, <2>8, StepKeeps
<1> QED
  BY <1>5, <1>6 DEF Receive

\* What is packed is one answer, to the question of whoever packs it.
LEMMA PackedIs ==
    ASSUME IInv, NEW p \in Proc, proc[p].pc = "got"
    PROVE  /\ Packed(p) \in Payload /\ Packed(p).key = proc[p].key /\ proc[p].key \in Key
           /\ Packed(p).headers = Packed(p).body /\ Packed(p).body.key = proc[p].key
           /\ Packed(p).body.epoch = epoch
           /\ Succeeded(p) <=> Packed(p).body.ver # Bad
<1> DEFINE a == inResp[proc[p].resp]
<1>1. ProcInv(p)
  BY DEF IInv
<1>2. /\ inSlice[proc[p].q] = [of |-> "req", is |-> proc[p].key] /\ proc[p].key \in Key
      /\ inSlice[proc[p].uh] = [of |-> "resp", is |-> proc[p].resp] /\ proc[p].resp \in Obj
      /\ inBuf[proc[p].buf] = a /\ a \in Answer /\ a.key = proc[p].key /\ a.epoch = epoch
  BY <1>1 DEF ProcInv, Upstream
<1>3. Said(proc[p].uh) = a
  <2>1. inSlice[proc[p].uh] # Nil
    BY <1>2, RequestsAssumption DEF Pairs
  <2> QED
    BY <1>2, <2>1 DEF Said
<1>4. Packed(p) = [key |-> proc[p].key, headers |-> a, body |-> a]
  BY <1>2, <1>3 DEF Packed
<1> HIDE DEF a
<1>5. Packed(p) \in Payload
  BY <1>2, <1>4 DEF Payload
<1>6. Succeeded(p) <=> a.ver # Bad
  BY DEF Succeeded, a
<1> QED
  BY <1>2, <1>4, <1>5, <1>6

\* One entry takes a later answer to its question, or another time; the others stay.
LEMMA OneEntryLater ==
    ASSUME IInv, NEW e \in EntryId, NEW k \in Key, Good(e, k),
           store' = store, epoch' = epoch, Sound(ent'[e], k, epoch),
           ent[e].payload.body.epoch <= ent'[e].payload.body.epoch,
           \A f \in EntryId \ {e} : ent'[f] = ent[f]
    PROVE  Stored' /\ \A x \in Proc : proc[x].e # Nil => Later(proc[x].e)
<1>1. ASSUME NEW f \in EntryId
      PROVE  Later(f)
  <2> SUFFICES ASSUME NEW k1 \in Key, Good(f, k1)
               PROVE  Good(f, k1)' /\ ent[f].payload.body.epoch <= ent'[f].payload.body.epoch
    BY DEF Later
  <2>1. CASE f = e
    <3>1. k1 = k
      BY <2>1 DEF Good, Sound
    <3> QED
      BY <2>1, <3>1 DEF Good
  <2>2. CASE f # e
    <3>1. ent'[f] = ent[f] /\ ent[f].payload.body.epoch \in Nat
      BY <2>2 DEF Good, Sound, Entry, Payload, Answer
    <3> QED
      BY <3>1 DEF Good
  <2> QED
    BY <2>1, <2>2
<1>2. Stored'
  <2>1. \A k1 \in Key : store[k1] # Nil =>
           k1 \in Ruled /\ Good(store[k1], k1) /\ store[k1] \in EntryId
    BY DEF IInv, Stored, TypeOK
  <2>2. \A k1 \in Key, f \in EntryId : Good(f, k1) => Good(f, k1)'
    BY <1>1 DEF Later
  <2> QED
    BY <2>1, <2>2 DEF Stored
<1> QED
  BY <1>1, <1>2, Types

\* Set changes no entry but to a later answer to its question.
LEMMA InsertKeeps ==
    ASSUME IInv, NEW r \in Req, proc[r].pc = "got", proc[r].cached, Succeeded(r),
           Insert(r), epoch' = epoch
    PROVE  /\ store' \in [Key -> EntryId \cup {Nil}] /\ ent' \in [EntryId -> Entry \cup {Nil}]
           /\ Stored' /\ \A x \in Proc : proc[x].e # Nil => Later(proc[x].e)
<1> DEFINE k == proc[r].key
           e == store[k]
           v == Packed(r)
<1>1. /\ r \in Proc /\ k \in Ruled /\ k \in Key /\ proc[r].e = Nil
      /\ v \in Payload /\ v.key = k /\ v.headers = v.body
      /\ v.body.key = k /\ v.body.epoch = epoch /\ v.body.ver # Bad
      /\ epoch \in Nat
  <2>1. r \in Proc
    BY DEF Proc
  <2>2. ProcInv(r)
    BY <2>1 DEF IInv
  <2> QED
    BY <2>1, <2>2, PackedIs, Types DEF ProcInv
<1> HIDE DEF v
<1>2. /\ \A e1, k1 : Good(e1, k1) =>
            ent[e1].payload.body.epoch \in Nat /\ ent[e1].payload.body.epoch <= epoch
      /\ \A e1, k1, k2 : Good(e1, k1) /\ Good(e1, k2) => k1 = k2
      /\ \A e1, k1 : Good(e1, k1) => k1 = ent[e1].payload.key
  BY DEF Good, Sound, Entry, Payload, Answer
<1>3. \A e1 : ent'[e1] = ent[e1] => Later(e1) /\ \A k1 : Good(e1, k1) => Good(e1, k1)'
  BY <1>2 DEF Later, Good, Sound
<1>4. \A n \in Nat : n <= epoch => Sound([payload |-> v, at |-> n], k, epoch)
  BY <1>1 DEF Sound, Entry
<1>5. CASE e # Nil /\ ent[e].payload = v
  <2>1. ent' = ent /\ store' = store
    BY <1>5 DEF Insert, v
  <2> QED
    BY <2>1, SameEntries DEF IInv, TypeOK
<1>6. CASE e # Nil /\ ent[e].payload # v
  <2> DEFINE x == [payload |-> v, at |-> 0]
  <2>1. ent' = [ent EXCEPT ![e] = x] /\ store' = store
    BY <1>6 DEF Insert, v
  <2>2. e \in EntryId /\ Sound(ent[e], k, epoch)
    BY <1>1, <1>6 DEF IInv, Stored, TypeOK, Good
  <2>3. Sound(x, k, epoch) /\ x \in Entry /\ x.payload.body.epoch = epoch
    BY <1>1, <1>4 DEF Sound
  <2> HIDE DEF x
  <2>4. ent' \in [EntryId -> Entry \cup {Nil}] /\ ent'[e] = x
        /\ \A f \in EntryId \ {e} : ent'[f] = ent[f]
    BY <2>1, <2>2, <2>3 DEF IInv, TypeOK
  <2>5. Good(e, k) /\ ent[e].payload.body.epoch <= x.payload.body.epoch
    BY <1>2, <2>2, <2>3 DEF Good
  <2> QED
    BY <1>1, <2>1, <2>2, <2>3, <2>4, <2>5, OneEntryLater DEF IInv, TypeOK
<1>7. CASE e = Nil
  <2> DEFINE x == [payload |-> v, at |-> epoch]
  <2>1. CASE UNCHANGED <<ent, store>>
    BY <2>1, SameEntries DEF IInv, TypeOK
  <2>2. CASE /\ ent' = [ent EXCEPT ![NewId] = x]
             /\ store' = [store EXCEPT ![k] = NewId]
    <3>1. \A k1 \in Key : store[k1] # Nil => k1 \in Ruled
      BY DEF IInv, Stored
    <3>2. /\ NewId \in EntryId /\ \A k1 \in Key : store[k1] # NewId
          /\ \A p \in Proc : proc[p].e # NewId
      BY <1>1, <3>1, FreeId
    <3>3. Sound(x, k, epoch) /\ x \in Entry
      BY <1>1, <1>4 DEF Sound
    <3> HIDE DEF x
    <3>4. /\ ent' \in [EntryId -> Entry \cup {Nil}] /\ ent'[NewId] = x
          /\ \A f \in EntryId \ {NewId} : ent'[f] = ent[f]
          /\ store' \in [Key -> EntryId \cup {Nil}] /\ store'[k] = NewId
          /\ \A k1 \in Key \ {k} : store'[k1] = store[k1]
      BY <1>1, <2>2, <3>2, <3>3 DEF IInv, TypeOK
    <3>5. \A p \in Proc : proc[p].e # Nil => Later(proc[p].e)
      BY <1>3, <3>2, <3>4, Types
    <3>6. Stored'
      <4> SUFFICES ASSUME NEW k1 \in Key, store'[k1] # Nil
                   PROVE  k1 \in Ruled /\ Sound(ent'[store'[k1]], k1, epoch)
        BY DEF Stored, Good
      <4>1. CASE k1 = k
        BY <1>1, <3>3, <3>4, <4>1
      <4>2. CASE k1 # k
        <5>1. store'[k1] = store[k1] /\ store[k1] \in EntryId /\ store[k1] # NewId
          BY <3>2, <3>4, <4>2 DEF IInv, TypeOK
        <5>2. k1 \in Ruled /\ Sound(ent[store[k1]], k1, epoch)
          BY <5>1 DEF IInv, Stored, Good
        <5> QED
          BY <3>4, <5>1, <5>2
      <4> QED
        BY <4>1, <4>2
    <3> QED
      BY <3>4, <3>5, <3>6
  <2> QED
    BY <1>7, <2>1, <2>2 DEF Insert, v
<1> QED
  BY <1>5, <1>6, <1>7

LEMMA GotKeeps ==
    ASSUME IInv, NEW r \in Req, Got(r)
    PROVE  IInv'
<1> DEFINE s == [proc[r] EXCEPT !.pc = "write", !.lm = epoch]
<1>1. /\ r \in Proc /\ proc[r].pc = "got" /\ proc[r] \in ProcState
      /\ epoch' = epoch /\ enabled' = enabled /\ UNCHANGED pools
      /\ proc' = [proc EXCEPT ![r] = s]
  BY DEF Got, At, IInv, TypeOK, Proc, Step
<1>2. /\ store' \in [Key -> EntryId \cup {Nil}] /\ ent' \in [EntryId -> Entry \cup {Nil}]
      /\ Stored' /\ \A x \in Proc : proc[x].e # Nil => Later(proc[x].e)
  <2>1. CASE proc[r].cached /\ Succeeded(r)
    BY <1>1, <2>1, InsertKeeps DEF Got
  <2>2. CASE ~ (proc[r].cached /\ Succeeded(r))
    BY <1>1, <2>2, SameEntries DEF Got, IInv, TypeOK
  <2> QED
    BY <2>1, <2>2
<1>3. /\ ProcInv(r) /\ proc[r].e = Nil /\ proc[r].out = Nil /\ proc[r].val = Nil
      /\ proc[r].key \in Key /\ r \notin Worker /\ epoch \in Nat
  <2>1. ProcInv(r)
    BY <1>1 DEF IInv
  <2> QED
    BY <1>1, <2>1, RequestsAssumption, Types DEF ProcInv
<1>4. s \in ProcState
  BY <1>1, <1>3 DEF ProcState
<1>5. proc'[r] = s /\ Others(proc, proc', r) /\ proc' \in [Proc -> ProcState]
  BY <1>1, <1>4 DEF IInv, TypeOK, Others
<1>6. /\ s.pc = "write" /\ s.lm = epoch /\ s.resp = proc[r].resp /\ s.buf = proc[r].buf
      /\ s.uh = proc[r].uh /\ s.out = Nil /\ s.e = Nil /\ s.val = Nil
      /\ s.key = proc[r].key /\ s.cached = proc[r].cached
  BY <1>1, <1>3 DEF ProcState
<1>7. HasSame(r)
  BY <1>1, <1>5 DEF HasSame, ProcState
<1> HIDE DEF s
<1>8. ProcInv(r)'
  BY <1>1, <1>3, <1>5, <1>6 DEF ProcInv, Upstream, pools
<1> QED
  BY <1>1, <1>2, <1>5, <1>7, <1>8, StillKeeps

LEMMA WriteKeeps ==
    ASSUME IInv, NEW r \in Req, Write(r)
    PROVE  IInv'
<1> DEFINE hit == proc[r].val # Nil
           out == [headers |-> Said(IF hit THEN proc[r].h ELSE proc[r].uh),
                   body |-> IF hit THEN proc[r].val.body ELSE inBuf[proc[r].buf]]
           s == [proc[r] EXCEPT !.pc = "put", !.out = out]
<1>1. /\ r \in Proc /\ proc[r].pc = "write" /\ proc[r] \in ProcState
      /\ epoch' = epoch /\ enabled' = enabled /\ ent' = ent /\ store' = store /\ UNCHANGED pools
      /\ proc' = [proc EXCEPT ![r] = s]
  BY DEF Write, At, IInv, TypeOK, Proc, Step
<1>2. /\ Stored' /\ \A x \in Proc : proc[x].e # Nil => Later(proc[x].e)
      /\ \A e, k : Good(e, k)' <=> Good(e, k)
  BY <1>1, SameEntries DEF Good, Sound
<1>3. ProcInv(r)
  BY <1>1 DEF IInv
<1>4. /\ \A o \in Obj : [of |-> "resp", is |-> o] # Nil
      /\ \A a \in Answer : [of |-> "payload", is |-> a] # Nil
  BY RequestsAssumption DEF Pairs
<1>5. /\ out \in Output /\ out.headers = out.body /\ out.body.key = proc[r].key
      /\ proc[r].lm \in Nat /\ proc[r].lm <= out.body.epoch
  <2>1. CASE hit
    <3>1. /\ proc[r].val \in Payload
          /\ inSlice[proc[r].h] = [of |-> "payload", is |-> proc[r].val.headers]
          /\ proc[r].val.headers = proc[r].val.body /\ proc[r].val.body.key = proc[r].key
          /\ proc[r].lm <= proc[r].val.body.epoch /\ proc[r].lm \in Nat
      BY <1>1, <1>3, <2>1 DEF ProcInv, ProcState
    <3>2. proc[r].val.headers \in Answer /\ proc[r].val.body \in Answer
      BY <3>1 DEF Payload
    <3>3. Said(proc[r].h) = proc[r].val.headers
      BY <1>4, <3>1, <3>2 DEF Said
    <3>4. out = [headers |-> proc[r].val.headers, body |-> proc[r].val.body]
      BY <2>1, <3>3
    <3> HIDE DEF out
    <3> QED
      BY <3>1, <3>2, <3>4 DEF Output
  <2>2. CASE ~ hit
    <3> DEFINE a == inResp[proc[r].resp]
    <3>1. /\ inSlice[proc[r].uh] = [of |-> "resp", is |-> proc[r].resp] /\ proc[r].resp \in Obj
          /\ inBuf[proc[r].buf] = a /\ a \in Answer /\ a.key = proc[r].key /\ a.epoch = epoch
          /\ proc[r].lm = epoch /\ epoch \in Nat
      BY <1>1, <1>3, <2>2, Types DEF ProcInv, Upstream
    <3>2. Said(proc[r].uh) = a
      BY <1>4, <3>1 DEF Said
    <3>3. out = [headers |-> a, body |-> a]
      BY <2>2, <3>1, <3>2
    <3> HIDE DEF out, a
    <3> QED
      BY <3>1, <3>3 DEF Output
  <2> QED
    BY <2>1, <2>2
<1> HIDE DEF out
<1>6. s \in ProcState
  BY <1>1, <1>5 DEF ProcState
<1>7. proc'[r] = s /\ Others(proc, proc', r) /\ proc' \in [Proc -> ProcState]
  BY <1>1, <1>6 DEF IInv, TypeOK, Others
<1>8. /\ s.pc = "put" /\ s.lm = proc[r].lm /\ s.out = out /\ s.e = proc[r].e
      /\ s.key = proc[r].key /\ s.cached = proc[r].cached
  BY <1>1 DEF ProcState
<1>9. HasSame(r)
  BY <1>1, <1>7 DEF HasSame, ProcState
<1> HIDE DEF s
<1>10. ProcInv(r)'
  <2>1. r \notin Worker /\ proc[r].key \in Key /\ proc[r].e = Nil
        /\ (proc[r].cached => proc[r].key \in Ruled)
    BY <1>1, <1>3, RequestsAssumption DEF ProcInv
  <2> QED
    BY <1>5, <1>7, <1>8, <2>1 DEF ProcInv, Upstream
<1> QED
  BY <1>1, <1>2, <1>7, <1>9, <1>10, StillKeeps DEF IInv, TypeOK

LEMMA RefreshKeeps ==
    ASSUME IInv, NEW w \in Worker, NEW k \in Key, Refresh(w, k)
    PROVE  IInv'
<1> DEFINE s == [Idle EXCEPT !.pc = "unpack", !.key = k, !.e = store[k]]
<1>1. /\ w \in Proc /\ w \notin Req /\ proc[w].pc = "idle" /\ store[k] # Nil
      /\ store[k] \in EntryId /\ UNCHANGED pools
      /\ epoch' = epoch /\ enabled' = enabled /\ ent' = ent /\ store' = store
      /\ proc' = [proc EXCEPT ![w] = s]
  BY RequestsAssumption DEF Refresh, At, IInv, TypeOK, Proc, Step
<1>2. /\ Stored' /\ \A x \in Proc : proc[x].e # Nil => Later(proc[x].e)
      /\ \A e1, k1 : Good(e1, k1)' <=> Good(e1, k1)
  BY <1>1, SameEntries DEF Good, Sound
<1>3. proc[w] = Idle /\ Good(store[k], k)
  BY <1>1 DEF IInv, ProcInv, Stored
<1>4. s \in ProcState
  BY <1>1 DEF ProcState, Idle
<1>5. proc'[w] = s /\ Others(proc, proc', w) /\ proc' \in [Proc -> ProcState]
  BY <1>1, <1>4 DEF IInv, TypeOK, Others
<1>6. /\ s.pc = "unpack" /\ s.key = k /\ s.e = store[k] /\ s.q = Nil /\ s.h = Nil
      /\ s.uh = Nil /\ s.buf = Nil /\ s.resp = Nil /\ s.val = Nil /\ s.out = Nil
      /\ ~ s.cached
  BY DEF Idle
<1>7. HasSame(w)
  BY <1>3, <1>5 DEF HasSame, Idle
<1> HIDE DEF s
<1>8. ProcInv(w)'
  BY <1>1, <1>2, <1>3, <1>5, <1>6 DEF ProcInv, Upstream
<1> QED
  BY <1>1, <1>2, <1>5, <1>7, <1>8, StillKeeps DEF IInv, TypeOK

LEMMA RepackKeeps ==
    ASSUME IInv, NEW w \in Worker, Repack(w)
    PROVE  IInv'
<1> DEFINE e == proc[w].e
           k == proc[w].key
           v == Packed(w)
           s == [proc[w] EXCEPT !.pc = "restamp"]
<1>1. /\ w \in Proc /\ w \notin Req /\ proc[w].pc = "got" /\ proc[w] \in ProcState
      /\ epoch' = epoch /\ enabled' = enabled /\ store' = store /\ UNCHANGED pools
      /\ UNCHANGED <<enabled, epoch, store>>
  BY RequestsAssumption DEF Repack, At, IInv, TypeOK, Proc
<1>2. CASE ~ Succeeded(w)
  <2>1. /\ proc' = [proc EXCEPT ![w] = [proc[w] EXCEPT !.pc = "put"]] /\ ent' = ent
        /\ [proc[w] EXCEPT !.pc = "put"] \in ProcState
    BY <1>1, <1>2 DEF Repack, Step, ProcState
  <2>2. /\ proc'[w] = [proc[w] EXCEPT !.pc = "put"]
        /\ Others(proc, proc', w) /\ proc' \in [Proc -> ProcState]
    BY <1>1, <2>1 DEF IInv, TypeOK, Others
  <2> QED
    BY <1>1, <2>1, <2>2, PutAwayKeeps
<1>3. CASE Succeeded(w)
  <2> DEFINE x == [ent[e] EXCEPT !.payload = v]
  <2>1. proc' = [proc EXCEPT ![w] = s] /\ ent' = [ent EXCEPT ![e] = x]
    BY <1>1, <1>3 DEF Repack, Step
  <2>2. /\ ProcInv(w) /\ e \in EntryId /\ e # Nil /\ Good(e, k) /\ k \in Key
        /\ proc[w].out = Nil
    <3>1. ProcInv(w)
      BY <1>1 DEF IInv
    <3> QED
      BY <1>1, <3>1, Types DEF ProcInv
  <2>3. /\ v \in Payload /\ v.key = k /\ v.headers = v.body
        /\ v.body.key = k /\ v.body.epoch = epoch /\ v.body.ver # Bad /\ epoch \in Nat
    BY <1>1, <1>3, PackedIs, Types
  <2> HIDE DEF v
  <2>4. Sound(x, k, epoch) /\ x \in Entry /\ x.payload.body.epoch = epoch
    <3>1. /\ ent[e] \in Entry /\ ent[e].at \in Nat /\ ent[e].at <= epoch
      <4>1. /\ ent[e] \in Entry /\ ent[e].at <= ent[e].payload.body.epoch
            /\ ent[e].payload.body.epoch <= epoch
        BY <2>2 DEF Good, Sound
      <4>2. ent[e].at \in Nat /\ ent[e].payload.body.epoch \in Nat
        BY <4>1 DEF Entry, Payload, Answer
      <4> QED
        BY <2>3, <4>1, <4>2
    <3>2. x \in Entry /\ x.payload = v /\ x.at = ent[e].at
      BY <2>3, <3>1 DEF Entry
    <3> HIDE DEF x
    <3> QED
      BY <2>3, <3>1, <3>2 DEF Sound
  <2> HIDE DEF x
  <2>5. /\ ent' \in [EntryId -> Entry \cup {Nil}] /\ ent'[e] = x
        /\ \A f \in EntryId \ {e} : ent'[f] = ent[f]
    BY <2>1, <2>2, <2>4 DEF IInv, TypeOK
  <2>6. Stored' /\ (\A p \in Proc : proc[p].e # Nil => Later(proc[p].e)) /\ Sound(ent'[e], k, epoch)
    <3>1. ent[e].payload.body.epoch <= epoch
      BY <2>2 DEF Good, Sound
    <3> QED
      BY <1>1, <2>2, <2>4, <2>5, <3>1, OneEntryLater
  <2>7. s \in ProcState
    BY <1>1 DEF ProcState
  <2>8. proc'[w] = s /\ Others(proc, proc', w) /\ proc' \in [Proc -> ProcState]
    BY <1>1, <2>1, <2>7 DEF IInv, TypeOK, Others
  <2>9. /\ s.pc = "restamp" /\ s.resp = proc[w].resp /\ s.buf = proc[w].buf
        /\ s.uh = proc[w].uh /\ s.out = Nil /\ s.e = e
        /\ s.key = k /\ s.cached = proc[w].cached
    BY <1>1, <2>2 DEF ProcState
  <2>10. HasSame(w)
    BY <1>1, <2>8 DEF HasSame, ProcState
  <2> HIDE DEF s
  <2>11. ProcInv(w)'
    <3>1. \A e1, k1 : Good(e1, k1)' <=> Sound(ent'[e1], k1, epoch')
      BY DEF Good
    <3> QED
      BY <1>1, <2>2, <2>4, <2>5, <2>6, <2>8, <2>9, <3>1 DEF ProcInv, Upstream, pools
  <2> QED
    BY <1>1, <2>5, <2>6, <2>8, <2>10, <2>11, StillKeeps DEF IInv, TypeOK
<1> QED
  BY <1>2, <1>3

LEMMA RestampKeeps ==
    ASSUME IInv, NEW w \in Worker, Restamp(w)
    PROVE  IInv'
<1> DEFINE e == proc[w].e
           k == proc[w].key
           x == [ent[e] EXCEPT !.at = epoch]
           s == [proc[w] EXCEPT !.pc = "put"]
<1>1. /\ w \in Proc /\ w \notin Req /\ proc[w].pc = "restamp" /\ proc[w] \in ProcState
      /\ epoch' = epoch /\ enabled' = enabled /\ store' = store /\ UNCHANGED pools
      /\ proc' = [proc EXCEPT ![w] = s] /\ ent' = [ent EXCEPT ![e] = x]
  BY RequestsAssumption DEF Restamp, At, IInv, TypeOK, Proc, Step
<1>2. /\ ProcInv(w) /\ e \in EntryId /\ e # Nil /\ Good(e, k) /\ k \in Key
      /\ proc[w].out = Nil /\ ent[e].payload.body.epoch = epoch /\ epoch \in Nat
  <2>1. ProcInv(w)
    BY <1>1 DEF IInv
  <2> QED
    BY <1>1, <2>1, Types DEF ProcInv
<1>3. Sound(x, k, epoch) /\ x \in Entry /\ x.payload = ent[e].payload
  <2>1. ent[e] \in Entry
    BY <1>2 DEF Good, Sound
  <2>2. x \in Entry /\ x.payload = ent[e].payload /\ x.at = epoch
    BY <1>2, <2>1 DEF Entry
  <2> HIDE DEF x
  <2> QED
    BY <1>2, <2>2 DEF Good, Sound
<1> HIDE DEF x
<1>4. /\ ent' \in [EntryId -> Entry \cup {Nil}] /\ ent'[e] = x
      /\ \A f \in EntryId \ {e} : ent'[f] = ent[f]
  BY <1>1, <1>2, <1>3 DEF IInv, TypeOK
<1>5. Stored' /\ (\A p \in Proc : proc[p].e # Nil => Later(proc[p].e)) /\ Sound(ent'[e], k, epoch)
  <2>1. ent[e].payload.body.epoch <= ent'[e].payload.body.epoch
    BY <1>2, <1>3, <1>4
  <2> QED
    BY <1>1, <1>2, <1>3, <1>4, <2>1, OneEntryLater
<1>6. s \in ProcState
  BY <1>1 DEF ProcState
<1>7. proc'[w] = s /\ Others(proc, proc', w) /\ proc' \in [Proc -> ProcState]
  BY <1>1, <1>6 DEF IInv, TypeOK, Others
<1>8. /\ s.pc = "put" /\ s.out = Nil /\ s.e = e /\ s.key = k /\ s.cached = proc[w].cached
  BY <1>1, <1>2 DEF ProcState
<1>9. HasSame(w)
  BY <1>1, <1>7 DEF HasSame, ProcState
<1> HIDE DEF s
<1>10. ProcInv(w)'
  <2>1. \A e1, k1 : Good(e1, k1)' <=> Sound(ent'[e1], k1, epoch')
    BY DEF Good
  <2> QED
    BY <1>1, <1>2, <1>5, <1>7, <1>8, <2>1 DEF ProcInv, Upstream
<1> QED
  BY <1>1, <1>4, <1>5, <1>7, <1>9, <1>10, StillKeeps DEF IInv, TypeOK

LEMMA PutKeeps ==
    ASSUME IInv, NEW p \in Proc, Put(p)
    PROVE  IInv'
<1> DEFINE s == proc[p]
           own == {s.q, s.h, s.uh} \ {Nil}
<1>1. /\ epoch' = epoch /\ ent' = ent /\ store' = store /\ enabled' = enabled
      /\ slices' = Given(slices, own) /\ inSlice' = Emptied(inSlice, own)
      /\ bufs' = Given(bufs, {s.buf}) /\ inBuf' = Emptied(inBuf, {s.buf})
      /\ resps' = Given(resps, {s.resp}) /\ inResp' = Emptied(inResp, {s.resp})
      /\ proc' = [proc EXCEPT ![p] = Idle]
  BY DEF Put, Step
<1>2. Stored' /\ \A x \in Proc : proc[x].e # Nil => Later(proc[x].e)
  BY <1>1, SameEntries
<1>3. Idle \in ProcState
  BY DEF Idle, ProcState
<1>4. proc'[p] = Idle /\ Others(proc, proc', p) /\ proc' \in [Proc -> ProcState]
  BY <1>1, <1>3 DEF IInv, TypeOK, Others
<1>5. /\ slices' \in [Slice -> Nat] /\ bufs' \in [Obj -> Nat] /\ resps' \in [Obj -> Nat]
      /\ inSlice' \in [Slice -> Pairs \cup {Nil}]
      /\ inBuf' \in [Obj -> Answer \cup {Nil}] /\ inResp' \in [Obj -> Answer \cup {Nil}]
      /\ \A o \in Slice : inSlice'[o] # inSlice[o] => o \in own
      /\ \A o \in Obj : inBuf'[o] # inBuf[o] => o = s.buf
      /\ \A o \in Obj : inResp'[o] # inResp[o] => o = s.resp
  BY <1>1 DEF IInv, TypeOK, Given, Emptied
<1>6. TypeOK'
  BY <1>1, <1>4, <1>5 DEF IInv, TypeOK
<1>7. Owned'
  <2>1. /\ proc'[p]["q"] = Nil /\ proc'[p]["h"] = Nil /\ proc'[p]["uh"] = Nil
        /\ proc'[p]["buf"] = Nil /\ proc'[p]["resp"] = Nil
    BY <1>4 DEF Idle
  <2>2. /\ DOMAIN slices = Slice /\ DOMAIN bufs = Obj /\ DOMAIN resps = Obj
        /\ Nil \notin Slice /\ Nil \notin Obj
    BY Types DEF IInv, TypeOK
  <2>3. /\ s.q = s["q"] /\ s.h = s["h"] /\ s.uh = s["uh"]
        /\ s.buf = s["buf"] /\ s.resp = s["resp"]
    BY Types
  <2>4. Gives(slices, own, proc, proc', p, {"q", "h", "uh"})
    BY <2>1, <2>2, <2>3 DEF Gives
  <2>5. Gives(bufs, {s.buf}, proc, proc', p, {"buf"}) /\ Gives(resps, {s.resp}, proc, proc', p, {"resp"})
    BY <2>1, <2>2, <2>3 DEF Gives
  <2> QED
    BY <1>1, <1>4, <2>4, <2>5, OwnGive DEF IInv, Owned
<1>8. ProcInv(p)'
  BY <1>4 DEF ProcInv, Idle, Upstream
<1>9. ContentsKept(p)
  BY <1>5, Types DEF ContentsKept, Roles
<1> QED
  BY <1>1, <1>2, <1>4, <1>6, <1>7, <1>8, <1>9, StepKeeps

\* The steps that are no process's.
LEMMA OwnProcs ==
    ASSUME IInv, UNCHANGED <<pools, proc>>
    PROVE  Owned'
BY DEF IInv, Owned, pools

LEMMA DropKeeps ==
    ASSUME IInv, NEW k \in Key, Drop(k)
    PROVE  IInv'
<1>1. /\ UNCHANGED <<enabled, epoch, ent, pools, proc>> /\ store' = [store EXCEPT ![k] = Nil]
  BY DEF Drop
<1>2. TypeOK'
  BY <1>1 DEF IInv, TypeOK, pools
<1>3. \A e1, k1 : Good(e1, k1)' <=> Good(e1, k1)
  BY <1>1 DEF Good, Sound
<1>4. Stored'
  <2>1. \A k1 \in Key : store'[k1] # Nil => store'[k1] = store[k1]
    BY <1>1 DEF IInv, TypeOK
  <2> QED
    BY <1>3, <2>1 DEF IInv, Stored
<1>5. \A p \in Proc : ProcInv(p)'
  BY <1>1, <1>3 DEF IInv, ProcInv, Upstream, pools
<1> QED
  BY <1>1, <1>2, <1>4, <1>5, OwnProcs DEF IInv

LEMMA OnOffKeeps == IInv /\ OnOff => IInv'
<1> SUFFICES ASSUME IInv, OnOff
             PROVE  IInv'
  OBVIOUS
<1>1. UNCHANGED <<epoch, store, ent, pools, proc>> /\ enabled' \in BOOLEAN
  BY DEF OnOff, IInv, TypeOK
<1>2. TypeOK'
  BY <1>1 DEF IInv, TypeOK, pools
<1>3. \A e1, k1 : Good(e1, k1)' <=> Good(e1, k1)
  BY <1>1 DEF Good, Sound
<1>4. Stored'
  BY <1>1, <1>3 DEF IInv, Stored
<1>5. \A p \in Proc : ProcInv(p)'
  BY <1>1, <1>3 DEF IInv, ProcInv, Upstream, pools
<1> QED
  BY <1>1, <1>2, <1>4, <1>5, OwnProcs DEF IInv

\* Time passes when nothing is under way: only what is stored gets older.
LEMMA AgeKeeps == IInv /\ Age => IInv'
<1> SUFFICES ASSUME IInv, Age
             PROVE  IInv'
  OBVIOUS
<1>1. /\ UNCHANGED <<enabled, store, ent, pools, proc>> /\ epoch' = epoch + 1 /\ epoch < MaxEpoch
      /\ Quiet
  BY DEF Age
<1>2. epoch \in 1..MaxEpoch /\ epoch' \in 1..MaxEpoch /\ epoch \in Nat
  BY <1>1, RequestsAssumption DEF IInv, TypeOK
<1>3. TypeOK'
  BY <1>1, <1>2 DEF IInv, TypeOK, pools
<1>4. Stored'
  <2>1. \A e1, k1 : Good(e1, k1) => Good(e1, k1)'
    <3> SUFFICES ASSUME NEW e1, NEW k1, Sound(ent[e1], k1, epoch)
                 PROVE  Sound(ent[e1], k1, epoch + 1)
      BY <1>1 DEF Good
    <3>1. ent[e1].payload.body.epoch \in Nat
      BY DEF Sound, Entry, Payload, Answer
    <3> QED
      BY <1>2, <3>1 DEF Sound
  <2> QED
    BY <1>1, <2>1 DEF IInv, Stored
<1>5. \A p \in Proc : ProcInv(p)'
  <2>1. \A p \in Proc : proc[p] = Idle
    BY <1>1 DEF Quiet, At, IInv, ProcInv
  <2> SUFFICES ASSUME NEW p \in Proc
               PROVE  ProcInv(p)'
    OBVIOUS
  <2>2. proc'[p] = Idle
    BY <1>1, <2>1
  <2>3. /\ Idle.pc = "idle" /\ Idle.e = Nil /\ Idle.out = Nil /\ Idle.cached = FALSE
    BY DEF Idle
  <2> QED
    BY <2>2, <2>3 DEF ProcInv, Upstream
<1> QED
  BY <1>1, <1>3, <1>4, <1>5, OwnProcs DEF IInv

LEMMA InitIInv == Init => IInv
<1> SUFFICES ASSUME Init
             PROVE  IInv
  OBVIOUS
<1>1. Idle \in ProcState
  BY DEF Idle, ProcState
<1>2. TypeOK
  BY <1>1, RequestsAssumption DEF Init, TypeOK
<1>3. Owned
  <2>1. \A p \in Proc : /\ proc[p]["q"] = Nil /\ proc[p]["h"] = Nil /\ proc[p]["uh"] = Nil
                        /\ proc[p]["buf"] = Nil /\ proc[p]["resp"] = Nil
    BY DEF Init, Idle
  <2>2. Nil \notin Slice /\ Nil \notin Obj
    BY RequestsAssumption, Sizes DEF Slice, Obj
  <2>3. /\ DOMAIN slices = Slice /\ DOMAIN bufs = Obj /\ DOMAIN resps = Obj
        /\ \A o \in Slice : slices[o] = 1
        /\ \A o \in Obj : bufs[o] = 1 /\ resps[o] = 1
    BY DEF Init
  <2> QED
    BY <2>1, <2>2, <2>3 DEF Owned, OwnBy
<1>4. Stored
  BY DEF Init, Stored
<1>5. \A p \in Proc : ProcInv(p)
  BY DEF Init, ProcInv, Idle, Upstream
<1> QED
  BY <1>2, <1>3, <1>4, <1>5 DEF IInv

LEMMA NextIInv == IInv /\ [Next]_vars => IInv'
<1> SUFFICES ASSUME IInv, [Next]_vars
             PROVE  IInv'
  OBVIOUS
<1>1. ASSUME NEW r \in Req, NEW k \in Key, Begin(r, k)
      PROVE  IInv'
  BY <1>1, BeginKeeps
<1>2. ASSUME NEW r \in Req, Got(r) \/ Write(r)
      PROVE  IInv'
  BY <1>2, GotKeeps, WriteKeeps
<1>3. ASSUME NEW w \in Worker, NEW k \in Key, Refresh(w, k)
      PROVE  IInv'
  BY <1>3, RefreshKeeps
<1>4. ASSUME NEW w \in Worker, Repack(w) \/ Restamp(w)
      PROVE  IInv'
  BY <1>4, RepackKeeps, RestampKeeps
<1>5. ASSUME NEW p \in Proc, Unpack(p) \/ Ask(p) \/ Receive(p) \/ Put(p)
      PROVE  IInv'
  BY <1>5, UnpackKeeps, AskKeeps, ReceiveKeeps, PutKeeps
<1>6. ASSUME NEW k \in Key, Drop(k)
      PROVE  IInv'
  BY <1>6, DropKeeps
<1>7. CASE OnOff \/ Age
  BY <1>7, OnOffKeeps, AgeKeeps
<1>8. CASE UNCHANGED vars
  <2>1. UNCHANGED <<enabled, epoch, store, ent, pools, proc>>
    BY <1>8 DEF vars
  <2>2. TypeOK'
    BY <2>1 DEF IInv, TypeOK, pools
  <2>3. Stored'
    BY <2>1 DEF IInv, Stored, Good, Sound
  <2>4. ASSUME NEW p \in Proc PROVE ProcInv(p)'
    <3>1. ProcInv(p)
      BY DEF IInv
    <3>2. \A e, k : Good(e, k)' <=> Good(e, k)
      BY <2>1 DEF Good, Sound
    <3> QED
      BY <2>1, <3>1, <3>2 DEF ProcInv, Upstream, pools
  <2> QED
    BY <2>1, <2>2, <2>3, <2>4, OwnProcs DEF IInv
<1> QED
  BY <1>1, <1>2, <1>3, <1>4, <1>5, <1>6, <1>7, <1>8 DEF Next

LEMMA SpecIInv == Spec => []IInv
BY InitIInv, NextIInv, PTL DEF Spec
-------------------------------------------------------------------------------
\* Type correctness of everything that passes through a request.
THEOREM RequestTypes == Spec => []TypeOK
<1>1. IInv => TypeOK
  BY DEF IInv
<1> QED
  BY <1>1, SpecIInv, PTL

\* Pooled slices, buffers and responses are each in their pool once, or with one
\* handler or refresh in one role, for any number of both and whatever fails.
THEOREM PooledOnce == Spec => []PoolsSound
<1>1. IInv => PoolsSound
  <2> SUFFICES ASSUME IInv
               PROVE  PoolsSound
    OBVIOUS
  <2>1. /\ DOMAIN slices = Slice /\ DOMAIN bufs = Obj /\ DOMAIN resps = Obj
        /\ Nil \notin Slice /\ Nil \notin Obj
    BY Types DEF IInv, TypeOK
  <2>2. /\ OwnBy(slices, proc, {"q", "h", "uh"}) /\ OwnBy(bufs, proc, {"buf"})
        /\ OwnBy(resps, proc, {"resp"})
    BY DEF IInv, Owned
  <2>3. Once(slices, {"q", "h", "uh"}) /\ Once(bufs, {"buf"}) /\ Once(resps, {"resp"})
    BY <2>1, <2>2, OwnedOnce
  <2> QED
    BY <2>3 DEF PoolsSound
<1> QED
  BY <1>1, SpecIInv, PTL

\* Every response, and every stored payload, is one answer to its own question.
THEOREM AnswersOwn == Spec => []OwnAnswer
<1>1. IInv => OwnAnswer
  <2> SUFFICES ASSUME IInv
               PROVE  OwnAnswer
    OBVIOUS
  <2>1. ASSUME NEW r \in Req, proc[r].out # Nil
        PROVE  /\ proc[r].out.headers # Nil /\ proc[r].out.headers = proc[r].out.body
               /\ proc[r].out.body.key = proc[r].key
    <3>1. r \in Proc /\ ProcInv(r) /\ proc[r].out \in Output
      BY <2>1 DEF Proc, IInv, TypeOK, ProcState
    <3>2. proc[r].out.headers \in Answer
      BY <3>1 DEF Output
    <3> QED
      BY <2>1, <3>1, <3>2, RequestsAssumption DEF ProcInv
  <2>2. ASSUME NEW k \in Key, store[k] # Nil
        PROVE  /\ ent[store[k]].payload.key = k
               /\ ent[store[k]].payload.headers = ent[store[k]].payload.body
               /\ ent[store[k]].payload.body.key = k /\ ent[store[k]].payload.body.ver # Bad
    BY <2>2 DEF IInv, Stored, Good, Sound
  <2> QED
    BY <2>1, <2>2 DEF OwnAnswer
<1> QED
  BY <1>1, SpecIInv, PTL

\* Last-Modified is at no time later than the answer it is sent with.
THEOREM TimesHonest == Spec => []LastModifiedHonest
<1>1. IInv => LastModifiedHonest
  BY DEF IInv, ProcInv, Proc, LastModifiedHonest
<1> QED
  BY <1>1, SpecIInv, PTL

\* An entry with an earlier epoch's payload is one the refresher may pick.
THEOREM OldIsCandidate == Spec => []StaleIsCandidate
<1>1. IInv => StaleIsCandidate
  <2> SUFFICES ASSUME IInv, NEW k \in Key, store[k] # Nil,
                      ent[store[k]].payload.body.epoch < epoch
               PROVE  ent[store[k]].at < epoch
    BY DEF StaleIsCandidate, Candidate
  <2>1. Sound(ent[store[k]], k, epoch)
    BY DEF IInv, Stored, Good
  <2>2. /\ ent[store[k]].at \in Nat /\ ent[store[k]].payload.body.epoch \in Nat
        /\ ent[store[k]].at <= ent[store[k]].payload.body.epoch /\ epoch \in Nat
    BY <2>1, Types DEF Sound, Entry, Payload, Answer
  <2> QED
    BY <2>2
<1> QED
  BY <1>1, SpecIInv, PTL

=============================================================================
