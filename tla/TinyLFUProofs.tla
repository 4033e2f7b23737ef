----------------------------- MODULE TinyLFUProofs -----------------------------
(***************************************************************************)
(* Proofs about TinyLFU: types, the exactness of the sketches, and what    *)
(* the doorkeeper remembers.  The first part is arithmetic modulo M.       *)
(***************************************************************************)
EXTENDS TinyLFU, FiniteSetTheorems, TLAPS

LEMMA Product == ASSUME NEW M \in Nat \ {0}, NEW d \in Nat \ {0}
                 PROVE M * d \in Nat /\ M * d >= M
  <1>1. PICK k \in Nat : d = k + 1 BY SMT
  <1>2. M * d = M * k + M BY <1>1, SMT
  <1>3. M * k \in Nat BY SMT
  <1> QED BY <1>2, <1>3, SMT

LEMMA Division == ASSUME NEW M \in Nat \ {0}, NEW a \in Nat
  PROVE \E q \in Nat, r \in 0..(M - 1) : r = a % M /\ a = M * q + r
  <1> DEFINE p == M * (a \div M)
             r == a % M
  <1>1. r \in 0..(M - 1) /\ a \div M \in Nat BY SMT
  <1>2. p \in Int BY <1>1, SMT
  <1>3. a - p = r BY SMT
  <1>4. a = p + r
    <2> HIDE DEF p, r
    <2> QED BY <1>1, <1>2, <1>3, SMT
  <1>5. PICK q \in Nat : q = a \div M BY <1>1
  <1>6. p = M * q BY <1>5
  <1> HIDE DEF p
  <1> QED BY <1>1, <1>4, <1>5, <1>6

LEMMA Remainder == ASSUME NEW M \in Nat \ {0}, NEW a \in Nat, NEW q \in Nat, NEW r \in 0..(M-1),
                         a = M * q + r
                  PROVE a % M = r
  <1>1. PICK p \in Nat, s \in 0..(M - 1) : s = a % M /\ a = M * p + s BY Division
  <1>2. CASE p = q BY <1>1, <1>2, SMT
  <1>3. CASE p > q
    <2>1. PICK d \in Nat \ {0} : p = q + d BY <1>1, <1>3, SMT
    <2>2. M * p = M * q + M * d BY <2>1, SMT
    <2>3. M * d >= M BY Product
    <2>4. M * p \in Nat /\ M * q \in Nat /\ M * d \in Nat  BY <1>1, SMT
    <2> QED BY <1>1, <2>2, <2>3, <2>4, SMT
  <1>4. CASE p < q
    <2>1. PICK d \in Nat \ {0} : q = p + d BY <1>1, <1>4, SMT
    <2>2. M * q = M * p + M * d BY <1>1, <2>1, SMT
    <2>3. M * d >= M BY Product
    <2>4. M * p \in Nat /\ M * q \in Nat /\ M * d \in Nat  BY <1>1, SMT
    <2> QED BY <1>1, <2>2, <2>3, <2>4, SMT
  <1> QED BY <1>1, <1>2, <1>3, <1>4, SMT

LEMMA NextRemainder ==
    ASSUME NEW M \in Nat \ {0}, NEW a \in Nat
    PROVE  (a + 1) % M = IF (a % M) + 1 = M THEN 0 ELSE (a % M) + 1
  <1>1. PICK q \in Nat, r \in 0..(M - 1) : r = a % M /\ a = M * q + r BY Division
  <1>2. CASE r + 1 = M
    <2>1. a + 1 = M * (q + 1) + 0 /\ q + 1 \in Nat /\ 0 \in 0..(M - 1) /\ a + 1 \in Nat BY <1>1, <1>2, SMT
    <2>2. (a + 1) % M = 0 BY <1>1, <2>1, Remainder
    <2> QED BY <1>1, <1>2, <2>2, Zenon
  <1>3. CASE r + 1 # M
    <2>1. a + 1 = M * q + (r + 1) /\ r + 1 \in 0..(M - 1) /\ a + 1 \in Nat BY <1>1, <1>3, SMT
    <2>2. (a + 1) % M = r + 1 BY <1>1, <2>1, Remainder
    <2> QED BY <1>1, <1>3, <2>2, Zenon
  <1> QED BY <1>2, <1>3

LEMMA SmallRemainder == ASSUME NEW M \in Nat \ {0}, NEW a \in Nat, a < M
                        PROVE  a % M = a
  <1>1. a = M * 0 + a /\ a \in 0..(M - 1) BY SMT
  <1> QED BY <1>1, Remainder, SMT
-------------------------------------------------------------------------------
Locals == [pc : Pcs, key : Key \cup {NoKey}, old : Key \cup {NoKey},
           inc : Gen, gen : Gen, row : 1..(Depth + 1), at : 1..(Depth + 1),
           door : Gen, knocked : Gen \cup {-1}, b1 : BOOLEAN, part : 0..4,
           low : Uint32, floor : Nat, sum : Uint32, freq : Uint32,
           verdict : {"none", "free", "admit", "refuse"}]

\* The keys a call has, by where it stands, and the room for the next rotation.
Knocking == {"bit1", "bit2", "or1", "or2"}
KeysKnown ==
    \A c \in Call :
        /\ call[c].pc # "new" => call[c].key \in Key
        /\ call[c].pc \in {"admit", "load", "read"} => call[c].old \in Key
        /\ call[c].pc \in {"admit", "load", "read", "counted"} => call[c].knocked # -1
        /\ call[c].pc \in Knocking /\ call[c].knocked # -1 => call[c].old \in Key
        /\ call[c].pc \in {"load", "read"} => call[c].part \in 1..4
        /\ call[c].pc = "inc" => call[c].knocked = -1
Room == rotate = "curr" => curr <= MaxRotations
Typed == TypeOK /\ KeysKnown /\ Room

LEMMA TypedInit == Init => Typed
  <1> SUFFICES ASSUME Init PROVE Typed OBVIOUS
  <1> USE LfuAssumption
  <1>1. 0 \in Gen /\ 1 \in Gen BY DEF Gen
  <1>2. 0 \in Uint32 BY DEF Uint32
  <1>3. New \in Locals BY <1>1, <1>2 DEF New, Locals, Pcs
  <1>4. TypeOK BY <1>1, <1>2, <1>3 DEF Init, TypeOK, Locals
  <1>5. KeysKnown BY DEF Init, KeysKnown, New, Knocking
  <1> QED BY <1>4, <1>5 DEF Init, Typed, Room

\* Locals stay of their type when one field at a time gets a value of its own.
LEMMA Fields ==
    ASSUME NEW p \in Locals
    PROVE  /\ \A x \in Pcs : [p EXCEPT !.pc = x] \in Locals
           /\ \A x \in Key : [p EXCEPT !.key = x] \in Locals /\ [p EXCEPT !.old = x] \in Locals
           /\ \A x \in Gen : /\ [p EXCEPT !.inc = x] \in Locals /\ [p EXCEPT !.gen = x] \in Locals
                             /\ [p EXCEPT !.door = x] \in Locals
                             /\ [p EXCEPT !.knocked = x] \in Locals
           /\ \A x \in 1..(Depth + 1) : [p EXCEPT !.at = x] \in Locals
                                         /\ [p EXCEPT !.row = x] \in Locals
           /\ \A x \in BOOLEAN : [p EXCEPT !.b1 = x] \in Locals
           /\ \A x \in 0..4 : [p EXCEPT !.part = x] \in Locals
           /\ \A x \in Nat : [p EXCEPT !.floor = x] \in Locals
           /\ \A x \in Uint32 : /\ [p EXCEPT !.low = x] \in Locals
                                /\ [p EXCEPT !.sum = x] \in Locals
                                /\ [p EXCEPT !.freq = x] \in Locals
           /\ \A x \in {"none", "free", "admit", "refuse"} : [p EXCEPT !.verdict = x] \in Locals
  BY DEF Locals

\* A step of call c that leaves the shared state alone and gives c new locals q
\* of the right type keeps the types.
LEMMA LocalStep ==
    ASSUME Typed, UNCHANGED shared, NEW c \in Call, NEW q \in Locals,
           call' = [call EXCEPT ![c] = q],
           q.pc # "new" => q.key \in Key,
           q.pc \in {"admit", "load", "read"} => q.old \in Key,
           q.pc \in {"admit", "load", "read", "counted"} => q.knocked # -1,
           q.pc \in Knocking /\ q.knocked # -1 => q.old \in Key,
           q.pc \in {"load", "read"} => q.part \in 1..4,
           q.pc = "inc" => q.knocked = -1
    PROVE  Typed'
  <1>1. call \in [Call -> Locals] BY DEF Typed, TypeOK, Locals
  <1>2. call' \in [Call -> Locals] BY <1>1
  <1>3. \A d \in Call : call'[d] = IF d = c THEN q ELSE call[d] BY <1>1
  <1>4. TypeOK' BY <1>2 DEF Typed, TypeOK, Locals, shared
  <1>5. KeysKnown' BY <1>3 DEF Typed, KeysKnown
  <1> QED BY <1>4, <1>5 DEF Typed, Room, shared

\* The same of a step of c that sets a bit of a doorkeeper.
LEMMA TypedBits ==
    ASSUME Typed, NEW c \in Call, NEW q \in Locals, NEW n \in {1, 2},
           call[c].pc \in Knocking,
           bits' = [bits EXCEPT ![call[c].door] =
                      @ \cup {BitOf(call[c].door, n, call[c].key)}],
           UNCHANGED <<table, curr, prev, door, rotate>>,
           call' = [call EXCEPT ![c] = q],
           q.pc \in {"or2", "counted", "done"},
           q.key = call[c].key,
           q.pc = "counted" => q.knocked # -1,
           q.pc = "or2" => q.knocked = call[c].knocked /\ q.old = call[c].old
    PROVE  Typed'
  <1> USE LfuAssumption
  <1>1. call \in [Call -> Locals] /\ bits \in [Gen -> SUBSET Bit] BY DEF Typed, TypeOK, Locals
  <1>2. call' \in [Call -> Locals] BY <1>1
  <1>3. \A d \in Call : call'[d] = IF d = c THEN q ELSE call[d] BY <1>1
  <1>4. call[c].key \in Key /\ (call[c].knocked # -1 => call[c].old \in Key)
    BY DEF Typed, KeysKnown, Knocking
  <1>5. bits' \in [Gen -> SUBSET Bit]
    <2>1. call[c].door \in Gen BY <1>1 DEF Locals
    <2>2. BitOf(call[c].door, n, call[c].key) \in Bit BY <1>4, <2>1
    <2> QED BY <1>1, <2>1, <2>2
  <1>6. TypeOK' BY <1>2, <1>5 DEF Typed, TypeOK, Locals
  <1>7. KeysKnown' BY <1>3, <1>4 DEF Typed, KeysKnown, Knocking
  <1> QED BY <1>6, <1>7 DEF Typed, Room

\* What the locals of a call are made of.
LEMMA TypedLocals ==
    ASSUME Typed, NEW c \in Call
    PROVE  /\ call \in [Call -> Locals] /\ call[c] \in Locals
           /\ curr \in Gen /\ prev \in Gen /\ door \in Gen
  BY DEF Typed, TypeOK, Locals

\* q asks about the same keys as p and knocked at the same doorkeeper.
SameKeys(q, p) == q.key = p.key /\ q.old = p.old /\ q.knocked = p.knocked

LEMMA KnockingKeys ==
    ASSUME Typed, NEW c \in Call, call[c].pc \in Knocking
    PROVE  call[c].key \in Key /\ (call[c].knocked # -1 => call[c].old \in Key)
  BY DEF Typed, KeysKnown, Knocking

\* What the two ends of Allow do to the locals.
LEMMA InsideLocals ==
    ASSUME Typed, NEW c \in Call, call[c].pc \in Knocking, Inside(c)
    PROVE  \E q \in Locals :
              /\ call' = [call EXCEPT ![c] = q]
              /\ q.key = call[c].key /\ q.old = call[c].old /\ q.inc = call[c].inc
              /\ q.row = call[c].row /\ q.verdict = call[c].verdict /\ q.door = call[c].door
              /\ q.knocked # -1
              /\ IF call[c].knocked = -1 THEN q.pc = "counted" /\ q.knocked = call[c].door
                 ELSE q.pc = "load" /\ q.part = 1 /\ q.knocked = call[c].knocked
  <1> DEFINE p == call[c]
  <1>1. p \in Locals BY TypedLocals
  <1>2. CASE p.knocked = -1
    <2> DEFINE q == [p EXCEPT !.pc = "counted", !.knocked = p.door]
    <2>1. [p EXCEPT !.pc = "counted"] \in Locals BY <1>1, Fields DEF Pcs
    <2>2. p.door \in Gen /\ p.door # -1 BY <1>1, LfuAssumption DEF Locals, Gen
    <2>3. q \in Locals BY <2>1, <2>2, Fields
    <2>4. call' = [call EXCEPT ![c] = q] BY <1>2 DEF Inside
    <2>5. /\ q.key = p.key /\ q.old = p.old /\ q.inc = p.inc /\ q.row = p.row
          /\ q.verdict = p.verdict /\ q.door = p.door /\ q.knocked = p.door /\ q.pc = "counted"
      BY <1>1 DEF Locals
    <2> HIDE DEF q
    <2> QED BY <1>2, <2>2, <2>3, <2>4, <2>5
  <1>3. CASE p.knocked # -1
    <2> DEFINE q == [p EXCEPT !.pc = "load", !.part = 1]
    <2>1. [p EXCEPT !.pc = "load"] \in Locals BY <1>1, Fields DEF Pcs
    <2>2. q \in Locals
      <3>1. 1 \in 0..4 OBVIOUS
      <3> QED BY <2>1, <3>1, Fields
    <2>3. call' = [call EXCEPT ![c] = q] BY <1>3 DEF Inside
    <2>4. /\ q.key = p.key /\ q.old = p.old /\ q.inc = p.inc /\ q.row = p.row
          /\ q.verdict = p.verdict /\ q.door = p.door /\ q.knocked = p.knocked
          /\ q.pc = "load" /\ q.part = 1
      BY <1>1 DEF Locals
    <2> HIDE DEF q
    <2> QED BY <1>3, <2>2, <2>3, <2>4
  <1> QED BY <1>2, <1>3

LEMMA OutsideLocals ==
    ASSUME Typed, NEW c \in Call, call[c].pc \in Knocking, Outside(c)
    PROVE  \E q \in Locals :
              /\ call' = [call EXCEPT ![c] = q]
              /\ q.key = call[c].key /\ q.old = call[c].old /\ q.inc = call[c].inc
              /\ q.row = call[c].row /\ q.door = call[c].door
              /\ q.knocked # -1
              /\ IF call[c].knocked = -1
                 THEN q.pc = "counted" /\ q.knocked = call[c].door /\ q.verdict = call[c].verdict
                 ELSE q.pc = "done" /\ q.verdict = "free" /\ q.knocked = call[c].knocked
  <1> DEFINE p == call[c]
  <1>1. p \in Locals BY TypedLocals
  <1>2. CASE p.knocked = -1
    <2> DEFINE q == [p EXCEPT !.pc = "counted", !.knocked = p.door]
    <2>1. [p EXCEPT !.pc = "counted"] \in Locals BY <1>1, Fields DEF Pcs
    <2>2. p.door \in Gen /\ p.door # -1 BY <1>1, LfuAssumption DEF Locals, Gen
    <2>3. q \in Locals BY <2>1, <2>2, Fields
    <2>4. call' = [call EXCEPT ![c] = q] BY <1>2 DEF Outside
    <2>5. /\ q.key = p.key /\ q.old = p.old /\ q.inc = p.inc /\ q.row = p.row
          /\ q.verdict = p.verdict /\ q.door = p.door /\ q.knocked = p.door /\ q.pc = "counted"
      BY <1>1 DEF Locals
    <2> HIDE DEF q
    <2> QED BY <1>2, <2>2, <2>3, <2>4, <2>5
  <1>3. CASE p.knocked # -1
    <2> DEFINE q == [p EXCEPT !.pc = "done", !.verdict = "free"]
    <2>1. [p EXCEPT !.pc = "done"] \in Locals BY <1>1, Fields DEF Pcs
    <2>2. q \in Locals BY <2>1, Fields
    <2>3. call' = [call EXCEPT ![c] = q] BY <1>3 DEF Outside
    <2>4. /\ q.key = p.key /\ q.old = p.old /\ q.inc = p.inc /\ q.row = p.row
          /\ q.verdict = "free" /\ q.door = p.door /\ q.knocked = p.knocked /\ q.pc = "done"
      BY <1>1 DEF Locals
    <2> HIDE DEF q
    <2> QED BY <1>3, <2>2, <2>3, <2>4
  <1> QED BY <1>2, <1>3

LEMMA TypedInside ==
    ASSUME Typed, NEW c \in Call, call[c].pc \in Knocking, Inside(c), UNCHANGED shared
    PROVE  Typed'
  <1>1. PICK q \in Locals :
          /\ call' = [call EXCEPT ![c] = q]
          /\ q.key = call[c].key /\ q.old = call[c].old /\ q.knocked # -1
          /\ q.pc = "counted" \/ (call[c].knocked # -1 /\ q.pc = "load" /\ q.part = 1)
    BY InsideLocals
  <1>2. call[c].key \in Key /\ (call[c].knocked # -1 => call[c].old \in Key) BY KnockingKeys
  <1>3. q.pc # "new" => q.key \in Key BY <1>1, <1>2
  <1>4. q.pc \in {"admit", "load", "read"} => q.old \in Key BY <1>1, <1>2
  <1>5. /\ q.pc \in {"admit", "load", "read", "counted"} => q.knocked # -1
        /\ q.pc \notin Knocking /\ q.pc # "inc"
        /\ q.pc \in {"load", "read"} => q.part \in 1..4
    BY <1>1 DEF Knocking
  <1> QED BY <1>1, <1>3, <1>4, <1>5, LocalStep

\* A step of an estimate: the keys stay, and so does the part or it moves on.
LEMMA EstimateStep ==
    ASSUME Typed, UNCHANGED shared, NEW c \in Call, NEW q \in Locals,
           call[c].pc \in {"load", "read"}, q.pc \in {"load", "read"},
           SameKeys(q, call[c]), q.part = call[c].part \/ q.part \in 1..4,
           call' = [call EXCEPT ![c] = q]
    PROVE  Typed'
  <1>1. /\ call[c].key \in Key /\ call[c].old \in Key /\ call[c].knocked # -1
        /\ call[c].part \in 1..4
    BY DEF Typed, KeysKnown
  <1>2. q.key \in Key /\ q.old \in Key /\ q.knocked # -1 /\ q.part \in 1..4
    BY <1>1 DEF SameKeys
  <1>3. q.pc \notin Knocking /\ q.pc # "inc" BY DEF Knocking
  <1> QED BY <1>2, <1>3, LocalStep

LEMMA HalfWord ==
    ASSUME NEW a \in Nat
    PROVE  (a % Modulus) \div 2 \in 0..(Modulus - 1)
  <1>1. PICK r \in 0..(Modulus - 1) : r = a % Modulus BY LfuAssumption, Division
  <1>2. r \div 2 \in 0..(Modulus - 1) BY LfuAssumption
  <1> QED BY <1>1, <1>2

LEMMA TypedStep ==
    ASSUME Typed, [Next]_vars
    PROVE  Typed'
  <1> USE LfuAssumption
  <1>1. ASSUME NEW c \in Call, NEW k \in Key, Start(c, k) PROVE Typed'
    <2> DEFINE q == [New EXCEPT !.pc = "inc", !.key = k, !.inc = curr]
    <2>1. 0 \in Gen /\ 0 \in Uint32 /\ curr \in Gen
      BY <1>1, TypedLocals DEF Gen, Uint32
    <2>2. q \in Locals
      <3>1. New \in Locals BY <2>1 DEF New, Locals, Pcs
      <3>2. "inc" \in Pcs BY DEF Pcs
      <3> HIDE DEF q
      <3>3. [New EXCEPT !.pc = "inc"] \in Locals BY <3>1, <3>2, Fields
      <3>4. [[New EXCEPT !.pc = "inc"] EXCEPT !.key = k] \in Locals BY <3>3, Fields
      <3> QED BY <2>1, <3>4, Fields DEF q
    <2>3. q.pc = "inc" /\ q.key \in Key /\ q.knocked = -1 BY DEF New
    <2>4. call' = [call EXCEPT ![c] = q] /\ UNCHANGED shared BY <1>1 DEF Start
    <2> HIDE DEF q
    <2> QED BY <2>2, <2>3, <2>4, LocalStep DEF Knocking
  <1>2. ASSUME NEW c \in Call, NEW k \in Key, AdmitStart(c, k) PROVE Typed'
    <2> DEFINE q == [call[c] EXCEPT !.pc = "admit", !.old = k]
    <2>1. q \in Locals
      <3>1. [call[c] EXCEPT !.pc = "admit"] \in Locals BY TypedLocals, Fields DEF Pcs
      <3> QED BY <3>1, Fields
    <2>2. q.pc = "admit" /\ q.key = call[c].key /\ q.old = k /\ q.knocked = call[c].knocked
      BY TypedLocals DEF Locals
    <2>3. call[c].pc = "counted" /\ call[c].key \in Key /\ call[c].knocked # -1
      BY <1>2 DEF AdmitStart, At, Typed, KeysKnown
    <2>4. call' = [call EXCEPT ![c] = q] /\ UNCHANGED shared BY <1>2 DEF AdmitStart
    <2> HIDE DEF q
    <2> QED BY <2>1, <2>2, <2>3, <2>4, LocalStep DEF Knocking
  <1>3. ASSUME NEW c \in Call, IncRow(c) PROVE Typed'
    <2> DEFINE p == call[c]
               q == [p EXCEPT !.row = p.row + 1]
    <2>1. p \in Locals /\ call \in [Call -> Locals] BY TypedLocals
    <2>2. p.row <= Depth /\ p.pc = "inc" /\ p.key \in Key /\ p.knocked = -1
      BY <1>3 DEF IncRow, At, Typed, KeysKnown
    <2>3. q \in Locals BY <2>1, <2>2 DEF Locals
    <2>4. q.pc = "inc" /\ q.key \in Key /\ q.knocked = -1 BY <2>1, <2>2 DEF Locals
    <2>5. call' = [call EXCEPT ![c] = q] BY <1>3 DEF IncRow
    <2>6. table' \in [Gen -> [Row -> [Column -> Uint32]]]
      <3>1. table \in [Gen -> [Row -> [Column -> Uint32]]] BY DEF Typed, TypeOK
      <3>2. \A n \in Uint32 : AddOne(n) \in Uint32 BY DEF Uint32, AddOne
      <3>3. p.inc \in Gen /\ p.row \in Row BY <2>1, <2>2 DEF Locals, Row
      <3>4. PICK col \in Column : col = ColumnOf(p.inc, p.row, p.key) BY <2>2, <3>3
      <3>5. table' = [table EXCEPT ![p.inc] = [table[p.inc] EXCEPT ![p.row] =
                        [table[p.inc][p.row] EXCEPT ![col] = AddOne(table[p.inc][p.row][col])]]]
        BY <1>3, <3>4 DEF IncRow
      <3> QED BY <3>1, <3>2, <3>3, <3>5
    <2>7. \A d \in Call : call'[d] = IF d = c THEN q ELSE call[d] BY <2>1, <2>5
    <2>8. call' \in [Call -> Locals] BY <2>1, <2>3, <2>5
    <2>9. UNCHANGED <<bits, curr, prev, door, rotate>> BY <1>3 DEF IncRow
    <2> HIDE DEF q
    <2>10. TypeOK' BY <2>6, <2>8, <2>9 DEF Typed, TypeOK, Locals
    <2>11. KeysKnown' BY <2>4, <2>7 DEF Typed, KeysKnown, Knocking
    <2> QED BY <2>9, <2>10, <2>11 DEF Typed, Room
  <1>4. ASSUME NEW c \in Call, Knock(c) PROVE Typed'
    <2> DEFINE q == [call[c] EXCEPT !.pc = "bit1", !.door = door]
    <2>1. q \in Locals
      <3>1. [call[c] EXCEPT !.pc = "bit1"] \in Locals BY TypedLocals, Fields DEF Pcs
      <3> QED BY <3>1, TypedLocals, Fields
    <2>2. q.pc = "bit1" /\ SameKeys(q, call[c])
      BY TypedLocals DEF Locals, SameKeys
    <2>3. call[c].pc \in {"inc", "admit"} BY <1>4 DEF Knock, At
    <2>4. call[c].key \in Key /\ (call[c].knocked # -1 => call[c].old \in Key)
      BY <2>3 DEF Typed, KeysKnown
    <2>5. call' = [call EXCEPT ![c] = q] /\ UNCHANGED shared BY <1>4 DEF Knock
    <2> HIDE DEF q
    <2> QED BY <2>1, <2>2, <2>4, <2>5, LocalStep DEF Knocking, SameKeys
  <1>5. ASSUME NEW c \in Call, LoadBit1(c) PROVE Typed'
    <2> DEFINE b == BitOf(call[c].door, 1, call[c].key) \in bits[call[c].door]
               q == [call[c] EXCEPT !.pc = "bit2", !.b1 = b]
    <2>1. q \in Locals
      <3>1. [call[c] EXCEPT !.pc = "bit2"] \in Locals BY TypedLocals, Fields DEF Pcs
      <3>2. b \in BOOLEAN OBVIOUS
      <3> HIDE DEF b
      <3> QED BY <3>1, <3>2, Fields
    <2>2. q.pc = "bit2" /\ SameKeys(q, call[c])
      <3> HIDE DEF b
      <3> QED BY TypedLocals DEF Locals, SameKeys
    <2>3. call[c].key \in Key /\ (call[c].knocked # -1 => call[c].old \in Key)
      BY <1>5, KnockingKeys DEF LoadBit1, At, Knocking
    <2>4. call' = [call EXCEPT ![c] = q] /\ UNCHANGED shared BY <1>5, Zenon DEF LoadBit1
    <2> HIDE DEF q
    <2> QED BY <2>1, <2>2, <2>3, <2>4, LocalStep DEF Knocking, SameKeys
  <1>6. ASSUME NEW c \in Call, LoadBit2(c) PROVE Typed'
    <2>1. CASE call[c].b1 /\ BitOf(call[c].door, 2, call[c].key) \in bits[call[c].door]
      <3>1. Inside(c) /\ UNCHANGED shared BY <1>6, <2>1 DEF LoadBit2
      <3> QED BY <1>6, <3>1, TypedInside DEF LoadBit2, At, Knocking
    <2>2. CASE ~ (call[c].b1 /\ BitOf(call[c].door, 2, call[c].key) \in bits[call[c].door])
      <3> DEFINE q == [call[c] EXCEPT !.pc = "or1"]
      <3>1. q \in Locals BY TypedLocals, Fields DEF Pcs
      <3>2. q.pc = "or1" /\ SameKeys(q, call[c]) BY TypedLocals DEF Locals, SameKeys
      <3>3. call[c].key \in Key /\ (call[c].knocked # -1 => call[c].old \in Key)
        BY <1>6, KnockingKeys DEF LoadBit2, At, Knocking
      <3>4. call' = [call EXCEPT ![c] = q] /\ UNCHANGED shared BY <1>6, <2>2 DEF LoadBit2
      <3> HIDE DEF q
      <3> QED BY <3>1, <3>2, <3>3, <3>4, LocalStep DEF Knocking, SameKeys
    <2> QED BY <2>1, <2>2
  <1>7. ASSUME NEW c \in Call, OrBit1(c) PROVE Typed'
    <2> DEFINE q == [call[c] EXCEPT !.pc = "or2"]
    <2>1. q \in Locals BY TypedLocals, Fields DEF Pcs
    <2>2. q.pc = "or2" /\ SameKeys(q, call[c]) BY TypedLocals DEF Locals, SameKeys
    <2>3. call[c].key \in Key /\ (call[c].knocked # -1 => call[c].old \in Key)
      BY <1>7, KnockingKeys DEF OrBit1, At, Knocking
    <2>4. call' = [call EXCEPT ![c] = q] BY <1>7 DEF OrBit1
    <2> HIDE DEF q
    <2>5. /\ call[c].pc \in Knocking
          /\ bits' = [bits EXCEPT ![call[c].door] =
                         @ \cup {BitOf(call[c].door, 1, call[c].key)}]
          /\ UNCHANGED <<table, curr, prev, door, rotate>>
      BY <1>7 DEF OrBit1, At, Knocking
    <2>6. /\ q.pc \in {"or2", "counted", "done"} /\ q.key = call[c].key
          /\ q.pc = "counted" => q.knocked # -1
          /\ q.pc = "or2" => q.knocked = call[c].knocked /\ q.old = call[c].old
      BY <2>2 DEF SameKeys
    <2>7. 1 \in {1, 2} OBVIOUS
    <2> HIDE DEF q
    <2> QED BY <2>1, <2>4, <2>5, <2>6, <2>7, TypedBits
  <1>8. ASSUME NEW c \in Call, OrBit2(c) PROVE Typed'
    <2>1. /\ call[c].pc \in Knocking
          /\ bits' = [bits EXCEPT ![call[c].door] =
                         @ \cup {BitOf(call[c].door, 2, call[c].key)}]
          /\ UNCHANGED <<table, curr, prev, door, rotate>> /\ Outside(c)
      BY <1>8 DEF OrBit2, At, Knocking
    <2>2. PICK q \in Locals :
            /\ call' = [call EXCEPT ![c] = q] /\ q.key = call[c].key /\ q.knocked # -1
            /\ q.pc \in {"counted", "done"}
      BY <2>1, OutsideLocals
    <2>3. 2 \in {1, 2} OBVIOUS
    <2>4. /\ q.pc \in {"or2", "counted", "done"} /\ q.pc = "counted" => q.knocked # -1
          /\ q.pc = "or2" => q.knocked = call[c].knocked /\ q.old = call[c].old
      BY <2>2
    <2> QED BY <2>1, <2>2, <2>3, <2>4, TypedBits
  <1>9. ASSUME NEW c \in Call, LoadSketch(c) PROVE Typed'
    <2> DEFINE f == Cardinality(Of(Consulted(c), Depth, Asked(c)))
               g == Consulted(c)
               q == [call[c] EXCEPT !.pc = "read", !.gen = g, !.at = 1,
                                    !.low = Modulus - 1, !.floor = f]
    <2>1. f \in Nat
      <3>1. IsFiniteSet(Of(Consulted(c), Depth, Asked(c)))
        BY FS_Subset DEF Of, Passed
      <3> QED BY <3>1, FS_CardinalityType
    <2>2. g \in Gen BY TypedLocals DEF Consulted
    <2>3. Modulus - 1 \in Uint32 /\ 1 \in 1..(Depth + 1) BY DEF Uint32
    <2> HIDE DEF f, g
    <2>4. q \in Locals
      <3>1. [call[c] EXCEPT !.pc = "read"] \in Locals BY TypedLocals, Fields DEF Pcs
      <3>2. [[call[c] EXCEPT !.pc = "read"] EXCEPT !.gen = g] \in Locals
        BY <2>2, <3>1, Fields
      <3>3. [[[call[c] EXCEPT !.pc = "read"] EXCEPT !.gen = g] EXCEPT !.at = 1] \in Locals
        BY <2>3, <3>2, Fields
      <3>4. [[[[call[c] EXCEPT !.pc = "read"] EXCEPT !.gen = g] EXCEPT !.at = 1]
               EXCEPT !.low = Modulus - 1] \in Locals
        BY <2>3, <3>3, Fields
      <3> QED BY <2>1, <3>4, Fields
    <2>5. q.pc = "read" /\ SameKeys(q, call[c]) /\ q.part = call[c].part
      BY TypedLocals DEF Locals, SameKeys
    <2>6. call' = [call EXCEPT ![c] = q] /\ UNCHANGED shared
      BY <1>9, Zenon DEF LoadSketch, f, g
    <2>7. call[c].pc = "load" BY <1>9 DEF LoadSketch, At
    <2> HIDE DEF q
    <2> QED BY <2>4, <2>5, <2>6, <2>7, EstimateStep
  <1>10. ASSUME NEW c \in Call, ReadRow(c) PROVE Typed'
    <2> DEFINE p == call[c]
               n == table[p.gen][p.at][ColumnOf(p.gen, p.at, Asked(c))]
               m == IF n < p.low THEN n ELSE p.low
               q == [p EXCEPT !.at = p.at + 1, !.low = m]
    <2>1. p \in Locals BY TypedLocals
    <2>2. p.pc = "read" /\ p.at <= Depth BY <1>10 DEF ReadRow, At
    <2>3. p.at \in Row /\ p.at + 1 \in 1..(Depth + 1) /\ p.gen \in Gen /\ p.low \in Uint32
      BY <2>1, <2>2 DEF Locals, Row
    <2>4. Asked(c) \in Key
      BY <2>2 DEF Asked, Typed, KeysKnown
    <2>5. n \in Uint32
      <3>1. PICK col \in Column : col = ColumnOf(p.gen, p.at, Asked(c)) BY <2>3, <2>4
      <3>2. table \in [Gen -> [Row -> [Column -> Uint32]]] BY DEF Typed, TypeOK
      <3> QED BY <2>3, <3>1, <3>2
    <2>6. m \in Uint32 BY <2>3, <2>5
    <2>7. call' = [call EXCEPT ![c] = q] /\ UNCHANGED shared BY <1>10, Zenon DEF ReadRow
    <2> HIDE DEF m, n
    <2>8. q \in Locals
      <3>1. [p EXCEPT !.at = p.at + 1] \in Locals BY <2>1, <2>3, Fields
      <3> QED BY <2>6, <3>1, Fields
    <2>9. q.pc = "read" /\ SameKeys(q, p) /\ q.part = p.part
      BY <2>1, <2>2 DEF Locals, SameKeys
    <2> HIDE DEF q
    <2> QED BY <2>2, <2>7, <2>8, <2>9, EstimateStep
  <1>11. ASSUME NEW c \in Call, Conclude(c) PROVE Typed'
    <2> DEFINE p == call[c]
    <2>1. p \in Locals BY TypedLocals
    <2>2. p.pc = "read" /\ UNCHANGED shared BY <1>11 DEF Conclude, At
    <2>3. p.part \in 1..4 BY <2>2 DEF Typed, KeysKnown
    <2>4. p.sum \in Uint32 /\ p.low \in Uint32 BY <2>1 DEF Locals
    <2>5. Halved(p) \in Uint32 BY <2>4, HalfWord DEF Halved, Uint32
    <2> DEFINE h == Halved(p)
               v == IF p.freq >= h THEN "admit" ELSE "refuse"
    <2> HIDE DEF h
    <2>6. CASE p.part \in {1, 3}
      <3> DEFINE q == [p EXCEPT !.pc = "load", !.sum = p.low, !.part = p.part + 1]
      <3>1. [p EXCEPT !.pc = "load"] \in Locals BY <2>1, Fields DEF Pcs
      <3>2. [[p EXCEPT !.pc = "load"] EXCEPT !.sum = p.low] \in Locals BY <2>4, <3>1, Fields
      <3>3. p.part + 1 \in 0..4 /\ p.part + 1 \in 1..4 BY <2>6
      <3>4. q \in Locals BY <3>2, <3>3, Fields
      <3>5. q.pc = "load" /\ SameKeys(q, p) /\ q.part = p.part + 1
        BY <2>1 DEF Locals, SameKeys
      <3>6. call' = [call EXCEPT ![c] = q]
        <4>1. p.part # 2 /\ p.part # 4 BY <2>6
        <4> QED BY <1>11, <4>1, Zenon DEF Conclude
      <3> HIDE DEF q
      <3> QED BY <2>2, <3>3, <3>4, <3>5, <3>6, EstimateStep
    <2>7. CASE p.part = 2
      <3> DEFINE q == [p EXCEPT !.pc = "load", !.freq = h, !.part = 3]
      <3>1. [p EXCEPT !.pc = "load"] \in Locals BY <2>1, Fields DEF Pcs
      <3>2. [[p EXCEPT !.pc = "load"] EXCEPT !.freq = h] \in Locals
        BY <2>5, <3>1, Fields DEF h
      <3>3. 3 \in 0..4 /\ 3 \in 1..4 OBVIOUS
      <3>4. q \in Locals BY <3>2, <3>3, Fields
      <3>5. q.pc = "load" /\ SameKeys(q, p) /\ q.part = 3 BY <2>1 DEF Locals, SameKeys
      <3>6. call' = [call EXCEPT ![c] = q]
        <4>1. p.part \notin {1, 3} /\ p.part # 4 BY <2>7
        <4> QED BY <1>11, <4>1, Zenon DEF Conclude, h
      <3> HIDE DEF q
      <3> QED BY <2>2, <3>3, <3>4, <3>5, <3>6, EstimateStep
    <2>8. CASE p.part = 4
      <3> DEFINE q == [p EXCEPT !.pc = "done", !.verdict = v]
      <3>1. [p EXCEPT !.pc = "done"] \in Locals BY <2>1, Fields DEF Pcs
      <3>2. v \in {"none", "free", "admit", "refuse"} OBVIOUS
      <3>3. call' = [call EXCEPT ![c] = q]
        <4>1. p.part \notin {1, 3} /\ p.part # 2 BY <2>8
        <4> QED BY <1>11, <4>1, Zenon DEF Conclude, h
      <3> HIDE DEF v
      <3>4. q \in Locals BY <3>1, <3>2, Fields
      <3>5. q.pc = "done" /\ q.key = p.key BY <2>1 DEF Locals
      <3>6. p.key \in Key BY <2>2 DEF Typed, KeysKnown
      <3>7. /\ q.pc # "new" => q.key \in Key
            /\ q.pc \notin {"admit", "load", "read", "counted"} /\ q.pc \notin Knocking
            /\ q.pc \notin {"load", "read"} /\ q.pc \notin {"admit", "load", "read"}
            /\ q.pc # "inc"
        BY <3>5, <3>6 DEF Knocking
      <3> HIDE DEF q
      <3> QED BY <2>2, <3>3, <3>4, <3>7, LocalStep
    <2> QED BY <2>3, <2>6, <2>7, <2>8
  <1>12. ASSUME RotatePrev \/ RotateCurr \/ RotateDoor PROVE Typed'
    <2>1. UNCHANGED <<table, bits, call>> BY <1>12 DEF RotatePrev, RotateCurr, RotateDoor
    <2>2. TypeOK
      BY DEF Typed
    <2>3. curr' \in Gen /\ prev' \in Gen /\ door' \in Gen
          /\ rotate' \in {"prev", "curr", "door"} /\ Room'
      BY <1>12 DEF Typed, TypeOK, Room, RotatePrev, RotateCurr, RotateDoor, Gen
    <2>4. TypeOK' BY <2>1, <2>2, <2>3 DEF TypeOK
    <2>5. KeysKnown' BY <2>1 DEF Typed, KeysKnown
    <2> QED BY <2>3, <2>4, <2>5 DEF Typed
  <1>13. ASSUME UNCHANGED vars PROVE Typed'
    BY <1>13 DEF vars, shared, Typed, TypeOK, KeysKnown, Room
  <1> QED
    BY <1>1, <1>2, <1>3, <1>4, <1>5, <1>6, <1>7, <1>8, <1>9, <1>10, <1>11, <1>12, <1>13
       DEF Next, CallStep, Allow

\* The types hold in every behaviour: no row, generation or key is ever out of
\* bounds, whatever a rotation does between the steps of a Set.
THEOREM LfuTypes == Spec => []TypeOK
  <1>1. Init => Typed BY TypedInit
  <1>2. Typed /\ [Next]_vars => Typed' BY TypedStep
  <1>3. Typed => TypeOK BY DEF Typed
  <1> QED BY <1>1, <1>2, <1>3, PTL DEF Spec

-------------------------------------------------------------------------------
(***************************************************************************)
(* The doorkeeper.  Good(p, b): what locals p know of the bits b.  A call  *)
(* whose Increment is over finds both its bits in the doorkeeper it        *)
(* knocked at, so at that doorkeeper it is never on its way to leave them. *)
(***************************************************************************)
Good(p, b) ==
    /\ p.knocked # -1 => BitOf(p.knocked, 1, p.key) \in b[p.knocked]
                         /\ BitOf(p.knocked, 2, p.key) \in b[p.knocked]
    /\ p.pc = "bit2" /\ p.b1 => BitOf(p.door, 1, p.key) \in b[p.door]
    /\ p.pc = "bit2" /\ p.knocked = p.door => p.b1
    /\ p.pc = "or2" => BitOf(p.door, 1, p.key) \in b[p.door]
    /\ p.pc \in {"or1", "or2"} => p.door # p.knocked
    /\ p.verdict = "free" => p.door # p.knocked
    /\ p.pc # "done" => p.verdict = "none"
Doors == \A c \in Call : Good(call[c], bits)

\* Bits are only ever added, so what the other calls know stays true.
LEMMA DoorsStep ==
    ASSUME Typed, Doors, NEW c \in Call, NEW q \in Locals,
           call' = [call EXCEPT ![c] = q],
           bits' \in [Gen -> SUBSET Bit], \A g \in Gen : bits[g] \subseteq bits'[g],
           Good(q, bits')
    PROVE  Doors'
  <1>1. call \in [Call -> Locals] BY TypedLocals
  <1>2. \A d \in Call : call'[d] = IF d = c THEN q ELSE call[d] BY <1>1
  <1>3. ASSUME NEW d \in Call, d # c PROVE Good(call[d], bits')
    <2>1. Good(call[d], bits) BY DEF Doors
    <2>2. call[d].door \in Gen /\ (call[d].knocked # -1 => call[d].knocked \in Gen)
      BY <1>1 DEF Locals
    <2> QED BY <2>1, <2>2 DEF Good
  <1> QED BY <1>2, <1>3 DEF Doors

\* A step that leaves bits alone, and takes c to a place Good says nothing of.
LEMMA CalmStep ==
    ASSUME Typed, Doors, NEW c \in Call, NEW q \in Locals, UNCHANGED bits,
           call' = [call EXCEPT ![c] = q],
           q.key = call[c].key, q.knocked = call[c].knocked,
           q.pc \notin {"bit2", "or1", "or2"}, q.verdict # "free",
           q.pc # "done" => q.verdict = "none"
    PROVE  Doors'
  <1>1. Good(q, bits) BY DEF Doors, Good
  <1>2. bits \in [Gen -> SUBSET Bit] BY DEF Typed, TypeOK
  <1> QED BY <1>1, <1>2, DoorsStep

\* Where call c stands and which locals its step changes.
LEMMA Standing ==
    ASSUME Typed, Doors, NEW c \in Call, call[c].pc # "done"
    PROVE  call[c] \in Locals /\ Good(call[c], bits) /\ call[c].verdict = "none"
  BY TypedLocals DEF Doors, Good

LEMMA DoorsNext ==
    ASSUME Typed, Doors, [Next]_vars
    PROVE  Doors'
  <1> USE LfuAssumption
  <1>0. bits \in [Gen -> SUBSET Bit] BY DEF Typed, TypeOK
  <1>1. ASSUME NEW c \in Call, NEW k \in Key, Start(c, k) PROVE Doors'
    <2> DEFINE q == [New EXCEPT !.pc = "inc", !.key = k, !.inc = curr]
    <2>1. Good(q, bits) BY DEF New, Good
    <2>2. call' = [call EXCEPT ![c] = q] /\ UNCHANGED bits BY <1>1 DEF Start, shared
    <2>3. \A d \in Call : call'[d] = IF d = c THEN q ELSE call[d] BY <2>2, TypedLocals
    <2> HIDE DEF q
    <2> QED BY <2>1, <2>2, <2>3 DEF Doors
  <1>2. ASSUME NEW c \in Call, NEW k \in Key, AdmitStart(c, k) PROVE Doors'
    <2> DEFINE q == [call[c] EXCEPT !.pc = "admit", !.old = k]
    <2>1. call[c].pc # "done" /\ call' = [call EXCEPT ![c] = q] /\ UNCHANGED bits
      BY <1>2 DEF AdmitStart, At, shared
    <2>2. call[c] \in Locals /\ call[c].verdict = "none" BY <2>1, Standing
    <2>3. /\ q.pc = "admit" /\ q.key = call[c].key /\ q.knocked = call[c].knocked
          /\ q.verdict = "none"
      BY <2>2 DEF Locals
    <2>4. q \in Locals
      <3>1. [call[c] EXCEPT !.pc = "admit"] \in Locals BY <2>2, Fields DEF Pcs
      <3> QED BY <3>1, Fields
    <2> HIDE DEF q
    <2> QED BY <2>1, <2>3, <2>4, CalmStep
  <1>3. ASSUME NEW c \in Call, IncRow(c) PROVE Doors'
    <2> DEFINE q == [call[c] EXCEPT !.row = call[c].row + 1]
    <2>1. call[c].pc = "inc" /\ call' = [call EXCEPT ![c] = q] /\ UNCHANGED bits
      BY <1>3 DEF IncRow, At
    <2>2. call[c] \in Locals /\ call[c].verdict = "none" BY <2>1, Standing
    <2>3. /\ q.pc = "inc" /\ q.key = call[c].key /\ q.knocked = call[c].knocked
          /\ q.verdict = "none"
      BY <2>1, <2>2 DEF Locals
    <2>4. call[c].row <= Depth BY <1>3 DEF IncRow
    <2>5. call[c].row + 1 \in 1..(Depth + 1) BY <2>2, <2>4 DEF Locals
    <2>6. q \in Locals BY <2>2, <2>5, Fields
    <2> HIDE DEF q
    <2> QED BY <2>1, <2>3, <2>6, CalmStep
  <1>4. ASSUME NEW c \in Call, Knock(c) PROVE Doors'
    <2> DEFINE q == [call[c] EXCEPT !.pc = "bit1", !.door = door]
    <2>1. call[c].pc # "done" /\ call' = [call EXCEPT ![c] = q] /\ UNCHANGED bits
      BY <1>4 DEF Knock, At, shared
    <2>2. call[c] \in Locals /\ call[c].verdict = "none" BY <2>1, Standing
    <2>3. /\ q.pc = "bit1" /\ q.key = call[c].key /\ q.knocked = call[c].knocked
          /\ q.verdict = "none"
      BY <2>2 DEF Locals
    <2>4. q \in Locals
      <3>1. [call[c] EXCEPT !.pc = "bit1"] \in Locals BY <2>2, Fields DEF Pcs
      <3> QED BY <3>1, TypedLocals, Fields
    <2> HIDE DEF q
    <2> QED BY <2>1, <2>3, <2>4, CalmStep
  \* The first bit is found set at the doorkeeper Increment knocked at.
  <1>5. ASSUME NEW c \in Call, LoadBit1(c) PROVE Doors'
    <2> DEFINE b == BitOf(call[c].door, 1, call[c].key) \in bits[call[c].door]
               q == [call[c] EXCEPT !.pc = "bit2", !.b1 = b]
    <2>1. call[c].pc = "bit1" BY <1>5 DEF LoadBit1, At
    <2>2. call' = [call EXCEPT ![c] = q] /\ UNCHANGED bits BY <1>5, Zenon DEF LoadBit1, shared
    <2>3. call[c] \in Locals /\ Good(call[c], bits) /\ call[c].verdict = "none"
      BY <2>1, Standing
    <2>4. b <=> BitOf(call[c].door, 1, call[c].key) \in bits[call[c].door] OBVIOUS
    <2>5. b \in BOOLEAN OBVIOUS
    <2> HIDE DEF b
    <2>6. /\ q.pc = "bit2" /\ q.key = call[c].key /\ q.knocked = call[c].knocked
          /\ q.verdict = "none" /\ q.door = call[c].door /\ q.b1 = b
      BY <2>3, <2>5 DEF Locals
    <2>7. q \in Locals
      <3>1. [call[c] EXCEPT !.pc = "bit2"] \in Locals BY <2>3, Fields DEF Pcs
      <3> QED BY <2>5, <3>1, Fields
    <2> HIDE DEF q
    <2>8. call[c].door \in Gen /\ call[c].door # -1 BY <2>3 DEF Locals, Gen
    <2>9. Good(q, bits) BY <2>3, <2>4, <2>6, <2>8 DEF Good
    <2> QED BY <1>0, <2>2, <2>7, <2>9, DoorsStep
  <1>6. ASSUME NEW c \in Call, LoadBit2(c) PROVE Doors'
    <2> DEFINE p == call[c]
               in == BitOf(p.door, 2, p.key) \in bits[p.door]
    <2>1. p.pc = "bit2" /\ UNCHANGED bits BY <1>6 DEF LoadBit2, At, shared
    <2>2. p \in Locals /\ Good(p, bits) /\ p.verdict = "none" BY <2>1, Standing
    <2>3. p.door \in Gen /\ p.door # -1 BY <2>2 DEF Locals, Gen
    \* Both bits were there.
    <2>4. CASE p.b1 /\ in
      <3>1. Inside(c) BY <1>6, <2>4 DEF LoadBit2
      <3>2. PICK q \in Locals :
              /\ call' = [call EXCEPT ![c] = q]
              /\ q.key = p.key /\ q.verdict = p.verdict /\ q.door = p.door
              /\ IF p.knocked = -1 THEN q.pc = "counted" /\ q.knocked = p.door
                 ELSE q.pc = "load" /\ q.knocked = p.knocked
        BY <2>1, <3>1, InsideLocals DEF Knocking
      <3>3. Good(q, bits)
        <4>1. CASE p.knocked = -1 BY <2>1, <2>2, <2>4, <3>2, <4>1 DEF Good
        <4>2. CASE p.knocked # -1 BY <2>1, <2>2, <3>2, <4>2 DEF Good
        <4> QED BY <4>1, <4>2
      <3> QED BY <1>0, <2>1, <3>2, <3>3, DoorsStep
    \* One was missing: this cannot be the doorkeeper Increment knocked at.
    <2>5. CASE ~ (p.b1 /\ in)
      <3> DEFINE q == [p EXCEPT !.pc = "or1"]
      <3>1. call' = [call EXCEPT ![c] = q] BY <1>6, <2>5 DEF LoadBit2
      <3>2. /\ q.pc = "or1" /\ q.key = p.key /\ q.knocked = p.knocked
            /\ q.verdict = "none" /\ q.door = p.door
        BY <2>2 DEF Locals
      <3>3. q \in Locals BY <2>2, Fields DEF Pcs
      <3>4. p.door # p.knocked
        <4> SUFFICES ASSUME p.door = p.knocked PROVE p.b1 /\ in BY <2>5
        <4> QED BY <2>1, <2>2, <2>3 DEF Good
      <3> HIDE DEF q
      <3>5. Good(q, bits) BY <2>2, <3>2, <3>4 DEF Good
      <3> QED BY <1>0, <2>1, <3>1, <3>3, <3>5, DoorsStep
    <2> QED BY <2>4, <2>5
  <1>7. ASSUME NEW c \in Call, OrBit1(c) PROVE Doors'
    <2> DEFINE p == call[c]
               q == [p EXCEPT !.pc = "or2"]
    <2>1. p.pc = "or1" BY <1>7 DEF OrBit1, At
    <2>2. p \in Locals /\ Good(p, bits) /\ p.verdict = "none" BY <2>1, Standing
    <2>3. call' = [call EXCEPT ![c] = q] /\
          bits' = [bits EXCEPT ![p.door] = bits[p.door] \cup {BitOf(p.door, 1, p.key)}]
      BY <1>7 DEF OrBit1
    <2>4. /\ bits' \in [Gen -> SUBSET Bit] /\ \A g \in Gen : bits[g] \subseteq bits'[g]
          /\ BitOf(p.door, 1, p.key) \in bits'[p.door]
      <3>1. p.key \in Key BY <2>1, KnockingKeys DEF Knocking
      <3>2. PICK i \in Bit : i = BitOf(p.door, 1, p.key) BY <2>2, <3>1 DEF Locals
      <3>3. p.door \in Gen BY <2>2 DEF Locals
      <3> QED BY <1>0, <2>3, <3>2, <3>3
    <2>5. /\ q.pc = "or2" /\ q.key = p.key /\ q.knocked = p.knocked
          /\ q.verdict = "none" /\ q.door = p.door
      BY <2>2 DEF Locals
    <2>6. q \in Locals BY <2>2, Fields DEF Pcs
    <2> HIDE DEF q
    <2>7. p.knocked # -1 => p.knocked \in Gen BY <2>2 DEF Locals
    <2>8. Good(q, bits') BY <2>1, <2>2, <2>4, <2>5, <2>7 DEF Good
    <2> QED BY <2>3, <2>4, <2>6, <2>8, DoorsStep
  <1>8. ASSUME NEW c \in Call, OrBit2(c) PROVE Doors'
    <2> DEFINE p == call[c]
    <2>1. p.pc = "or2" /\ Outside(c) BY <1>8 DEF OrBit2, At
    <2>2. p \in Locals /\ Good(p, bits) /\ p.verdict = "none" BY <2>1, Standing
    <2>3. bits' = [bits EXCEPT ![p.door] = bits[p.door] \cup {BitOf(p.door, 2, p.key)}]
      BY <1>8 DEF OrBit2
    <2>4. /\ bits' \in [Gen -> SUBSET Bit] /\ \A g \in Gen : bits[g] \subseteq bits'[g]
          /\ BitOf(p.door, 2, p.key) \in bits'[p.door]
      <3>1. p.key \in Key BY <2>1, KnockingKeys DEF Knocking
      <3>2. PICK i \in Bit : i = BitOf(p.door, 2, p.key) BY <2>2, <3>1 DEF Locals
      <3>3. p.door \in Gen BY <2>2 DEF Locals
      <3> QED BY <1>0, <2>3, <3>2, <3>3
    <2>5. PICK q \in Locals :
            /\ call' = [call EXCEPT ![c] = q] /\ q.key = p.key /\ q.door = p.door
            /\ IF p.knocked = -1
               THEN q.pc = "counted" /\ q.knocked = p.door /\ q.verdict = p.verdict
               ELSE q.pc = "done" /\ q.verdict = "free" /\ q.knocked = p.knocked
      BY <2>1, OutsideLocals DEF Knocking
    <2>6. p.door \in Gen /\ (p.knocked # -1 => p.knocked \in Gen) BY <2>2 DEF Locals
    <2>7. Good(q, bits')
      <3>1. CASE p.knocked = -1 BY <2>1, <2>2, <2>4, <2>5, <2>6, <3>1 DEF Good
      <3>2. CASE p.knocked # -1 BY <2>1, <2>2, <2>4, <2>5, <2>6, <3>2 DEF Good
      <3> QED BY <3>1, <3>2
    <2> QED BY <2>4, <2>5, <2>7, DoorsStep
  <1>9. ASSUME NEW c \in Call, LoadSketch(c) \/ ReadRow(c) \/ Conclude(c) PROVE Doors'
    <2>1. call[c].pc # "done" /\ UNCHANGED bits
      BY <1>9 DEF LoadSketch, ReadRow, Conclude, At, shared
    <2>2. call[c] \in Locals /\ Good(call[c], bits) BY <2>1, Standing
    <2>3. Typed' BY <1>9, TypedStep DEF Next, CallStep
    <2>4. call \in [Call -> Locals] /\ call' \in [Call -> Locals]
      BY <2>3 DEF Typed, TypeOK, Locals
    <2>5. call' = [call EXCEPT ![c] = call'[c]]
      BY <1>9, <2>4 DEF LoadSketch, ReadRow, Conclude
    <2>6. /\ call'[c].key = call[c].key /\ call'[c].knocked = call[c].knocked
          /\ call'[c].pc \notin {"bit2", "or1", "or2"} /\ call'[c].verdict # "free"
          /\ call'[c].pc # "done" => call'[c].verdict = "none"
      <3>1. CASE LoadSketch(c) BY <2>2, <2>4, <3>1, Standing DEF LoadSketch, Locals, At
      <3>2. CASE ReadRow(c) BY <2>2, <2>4, <3>2, Standing DEF ReadRow, Locals, At
      <3>3. CASE Conclude(c)
        <4> DEFINE p == call[c]
                   h == Halved(p)
                   v == IF p.freq >= h THEN "admit" ELSE "refuse"
        <4>1. p \in Locals /\ p.verdict = "none" BY <2>1, Standing
        <4>2. \/ call' = [call EXCEPT ![c] =
                             [p EXCEPT !.pc = "load", !.sum = p.low, !.part = p.part + 1]]
              \/ call' = [call EXCEPT ![c] = [p EXCEPT !.pc = "load", !.freq = h, !.part = 3]]
              \/ call' = [call EXCEPT ![c] = [p EXCEPT !.pc = "done", !.verdict = v]]
          BY <3>3, Zenon DEF Conclude
        <4>3. v \in {"admit", "refuse"} OBVIOUS
        <4> HIDE DEF h, v
        <4>4. CASE call' = [call EXCEPT ![c] =
                             [p EXCEPT !.pc = "load", !.sum = p.low, !.part = p.part + 1]]
          BY <2>4, <4>1, <4>4 DEF Locals
        <4>5. CASE call' = [call EXCEPT ![c] =
                             [p EXCEPT !.pc = "load", !.freq = h, !.part = 3]]
          BY <2>4, <4>1, <4>5 DEF Locals
        <4>6. CASE call' = [call EXCEPT ![c] = [p EXCEPT !.pc = "done", !.verdict = v]]
          BY <2>4, <4>1, <4>3, <4>6 DEF Locals
        <4> QED BY <4>2, <4>4, <4>5, <4>6
      <3> QED BY <1>9, <3>1, <3>2, <3>3
    <2>7. PICK q \in Locals : q = call'[c] BY <2>4
    <2> QED BY <2>1, <2>5, <2>6, <2>7, CalmStep
  <1>10. ASSUME UNCHANGED <<bits, call>> PROVE Doors'
    BY <1>10 DEF Doors
  <1>11. ASSUME RotatePrev \/ RotateCurr \/ RotateDoor PROVE Doors'
    BY <1>10, <1>11 DEF RotatePrev, RotateCurr, RotateDoor
  <1>12. ASSUME UNCHANGED vars PROVE Doors'
    BY <1>10, <1>12 DEF vars, shared
  <1> QED
    BY <1>1, <1>2, <1>3, <1>4, <1>5, <1>6, <1>7, <1>8, <1>9, <1>11, <1>12
       DEF Next, CallStep, Allow

\* A newcomer is not let in for free by the doorkeeper its own Set knocked at:
\* Admit's early return needs a Rotate between the two calls of Allow.
THEOREM FreePass == Spec => []FreePassNeedsRotation
  <1>1. Init => Typed BY TypedInit
  <1>2. Init => Doors BY DEF Init, Doors, Good, New
  <1>3. Typed /\ Doors /\ [Next]_vars => Typed' /\ Doors' BY TypedStep, DoorsNext
  <1>4. Doors => FreePassNeedsRotation BY DEF Doors, Good, FreePassNeedsRotation
  <1> QED BY <1>1, <1>2, <1>3, <1>4, PTL DEF Spec

-------------------------------------------------------------------------------
(***************************************************************************)
(* The sketches.  Only Start and IncRow change which increments went into  *)
(* a cell; the other steps keep what Into and Of look at.                  *)
(***************************************************************************)
Counted(p, o) == /\ p.key = o.key /\ p.inc = o.inc /\ p.row = o.row
                 /\ p.pc # "new" /\ o.pc # "new"

LEMMA KeepsCounted ==
    ASSUME Typed, NEW c \in Call,
           \/ \E k \in Key : AdmitStart(c, k)
           \/ Knock(c) \/ Allow(c) \/ LoadSketch(c) \/ ReadRow(c) \/ Conclude(c)
    PROVE  /\ table' = table /\ Counted(call'[c], call[c])
           /\ \A d \in Call : d # c => call'[d] = call[d]
           /\ LoadSketch(c) \/ ReadRow(c) \/ call'[c].pc # "read"
  <1>1. call \in [Call -> Locals] /\ call[c] \in Locals BY TypedLocals
  <1>2. table' = table
    BY DEF AdmitStart, Knock, Allow, LoadBit1, LoadBit2, OrBit1, OrBit2, LoadSketch, ReadRow,
           Conclude, shared
  <1>3. CASE (\E k \in Key : AdmitStart(c, k)) \/ Knock(c)
    BY <1>1, <1>2, <1>3 DEF AdmitStart, Knock, Counted, At, Locals
  <1>4. CASE LoadBit1(c)
    <2> DEFINE b == BitOf(call[c].door, 1, call[c].key) \in bits[call[c].door]
    <2>1. call[c].pc = "bit1" /\ call' = [call EXCEPT ![c] = [call[c] EXCEPT !.pc = "bit2", !.b1 = b]]
      BY <1>4, Zenon DEF LoadBit1, At
    <2> HIDE DEF b
    <2> QED BY <1>1, <1>2, <2>1 DEF Counted, Locals
  <1>5. ASSUME call[c].pc \in Knocking,
               \E q \in Locals : /\ call' = [call EXCEPT ![c] = q]
                                 /\ q.key = call[c].key /\ q.inc = call[c].inc
                                 /\ q.row = call[c].row /\ q.pc \notin {"new", "read"}
        PROVE  Counted(call'[c], call[c]) /\ call'[c].pc # "read" /\ \A d \in Call : d # c => call'[d] = call[d]
    BY <1>1, <1>5 DEF Counted, Knocking
  <1>6. CASE Inside(c) /\ call[c].pc \in Knocking
    <2>1. PICK q \in Locals : /\ call' = [call EXCEPT ![c] = q]
                              /\ q.key = call[c].key /\ q.inc = call[c].inc
                              /\ q.row = call[c].row /\ q.pc \in {"counted", "load"}
      BY <1>6, InsideLocals
    <2>2. q.pc \notin {"new", "read"} BY <2>1
    <2>3. Counted(call'[c], call[c]) /\ call'[c].pc # "read" /\ \A d \in Call : d # c => call'[d] = call[d]
      BY <1>5, <1>6, <2>1, <2>2
    <2> QED BY <1>2, <2>3
  <1>7. CASE Outside(c) /\ call[c].pc \in Knocking
    <2>1. PICK q \in Locals : /\ call' = [call EXCEPT ![c] = q]
                              /\ q.key = call[c].key /\ q.inc = call[c].inc
                              /\ q.row = call[c].row /\ q.pc \in {"counted", "done"}
      BY <1>7, OutsideLocals
    <2>2. q.pc \notin {"new", "read"} BY <2>1
    <2>3. Counted(call'[c], call[c]) /\ call'[c].pc # "read" /\ \A d \in Call : d # c => call'[d] = call[d]
      BY <1>5, <1>7, <2>1, <2>2
    <2> QED BY <1>2, <2>3
  <1>8. CASE LoadBit2(c)
    <2>1. CASE call' = [call EXCEPT ![c].pc = "or1"]
      BY <1>1, <1>2, <1>8, <2>1 DEF LoadBit2, At, Counted, Locals
    <2> QED BY <1>6, <1>8, <2>1 DEF LoadBit2, At, Knocking
  <1>9. CASE OrBit1(c) BY <1>1, <1>2, <1>9 DEF OrBit1, At, Counted, Locals
  <1>10. CASE OrBit2(c) BY <1>7, <1>10 DEF OrBit2, At, Knocking
  <1>11. CASE LoadSketch(c)
    <2> DEFINE f == Cardinality(Of(Consulted(c), Depth, Asked(c)))
               g == Consulted(c)
    <2>1. call[c].pc = "load" /\ call' = [call EXCEPT ![c] = [call[c] EXCEPT
            !.pc = "read", !.gen = g, !.at = 1, !.low = Modulus - 1, !.floor = f]]
      BY <1>11, Zenon DEF LoadSketch, At
    <2> HIDE DEF f, g
    <2> QED BY <1>1, <1>2, <1>11, <2>1 DEF Counted, Locals
  <1>12. CASE ReadRow(c)
    <2> DEFINE p == call[c]
               n == table[p.gen][p.at][ColumnOf(p.gen, p.at, Asked(c))]
               m == IF n < p.low THEN n ELSE p.low
    <2>1. p.pc = "read" /\ call' = [call EXCEPT ![c] = [p EXCEPT !.at = p.at + 1, !.low = m]]
      BY <1>12, Zenon DEF ReadRow, At
    <2> HIDE DEF n, m
    <2> QED BY <1>1, <1>2, <1>12, <2>1 DEF Counted, Locals
  <1>13. CASE Conclude(c)
    <2> DEFINE p == call[c]
               h == Halved(p)
               v == IF p.freq >= h THEN "admit" ELSE "refuse"
    <2>1. p.pc = "read" BY <1>13 DEF Conclude, At
    <2>2. \/ call' = [call EXCEPT ![c] =
                         [p EXCEPT !.pc = "load", !.sum = p.low, !.part = p.part + 1]]
          \/ call' = [call EXCEPT ![c] = [p EXCEPT !.pc = "load", !.freq = h, !.part = 3]]
          \/ call' = [call EXCEPT ![c] = [p EXCEPT !.pc = "done", !.verdict = v]]
      BY <1>13, Zenon DEF Conclude
    <2> HIDE DEF h, v
    <2>3. CASE call' = [call EXCEPT ![c] =
                         [p EXCEPT !.pc = "load", !.sum = p.low, !.part = p.part + 1]]
      BY <1>1, <1>2, <2>1, <2>3 DEF Counted, Locals
    <2>4. CASE call' = [call EXCEPT ![c] = [p EXCEPT !.pc = "load", !.freq = h, !.part = 3]]
      BY <1>1, <1>2, <2>1, <2>4 DEF Counted, Locals
    <2>5. CASE call' = [call EXCEPT ![c] = [p EXCEPT !.pc = "done", !.verdict = v]]
      BY <1>1, <1>2, <2>1, <2>5 DEF Counted, Locals
    <2> QED BY <2>2, <2>3, <2>4, <2>5
  <1> QED BY <1>3, <1>4, <1>8, <1>9, <1>10, <1>11, <1>12, <1>13 DEF Allow

\* .. and then the cells stay as exact as they were.
LEMMA ExactFrame ==
    ASSUME SketchExact, table' = table,
           \A d \in Call : call'[d] = call[d] \/ Counted(call'[d], call[d])
    PROVE  SketchExact'
  <1>1. \A g, r, col : Into(g, r, col)' = Into(g, r, col)
    BY DEF Into, Passed, Counted
  <1> QED BY <1>1 DEF SketchExact

LEMMA ExactNext ==
    ASSUME Typed, SketchExact, [Next]_vars
    PROVE  SketchExact'
  <1> USE LfuAssumption
  <1>1. call \in [Call -> Locals] BY DEF Typed, TypeOK, Locals
  \* A call that just started is past no row.
  <1>2. ASSUME NEW c \in Call, NEW k \in Key, Start(c, k) PROVE SketchExact'
    <2>1. /\ call[c].pc = "new" /\ table' = table
          /\ call'[c].row = 1 /\ \A d \in Call : d # c => call'[d] = call[d]
      BY <1>1, <1>2 DEF Start, At, shared, New
    <2>2. \A g \in Gen, r \in Row, col \in Column : Into(g, r, col)' = Into(g, r, col)
      <3>1. SUFFICES ASSUME NEW g \in Gen, NEW r \in Row, NEW col \in Column,
                            NEW d \in Call
                     PROVE  d \in Into(g, r, col)' <=> d \in Into(g, r, col)
        BY DEF Into, Passed
      <3>2. CASE d = c BY <2>1, <3>2 DEF Into, Passed, Row
      <3>3. CASE d # c BY <2>1, <3>3 DEF Into, Passed
      <3> QED BY <3>2, <3>3
    <2> QED BY <2>1, <2>2 DEF SketchExact
  \* An increment of a row puts one more call into one cell.
  <1>3. ASSUME NEW c \in Call, IncRow(c) PROVE SketchExact'
    <2> DEFINE p == call[c]
    <2>1. p \in Locals /\ p.pc = "inc" /\ p.row <= Depth
      BY <1>1, <1>3 DEF IncRow, At
    <2>2. p.inc \in Gen /\ p.row \in Row BY <2>1 DEF Locals, Row
    <2>3. p.key \in Key BY <2>1 DEF Typed, KeysKnown
    <2>4. PICK at \in Column : at = ColumnOf(p.inc, p.row, p.key) BY <2>2, <2>3
    <2>5. table' = [table EXCEPT ![p.inc] = [table[p.inc] EXCEPT ![p.row] =
                      [table[p.inc][p.row] EXCEPT ![at] = AddOne(table[p.inc][p.row][at])]]]
      BY <1>3, <2>4 DEF IncRow
    <2>6. call' = [call EXCEPT ![c] = [p EXCEPT !.row = p.row + 1]] BY <1>3 DEF IncRow
    <2>7. /\ \A d \in Call : d # c => call'[d] = call[d]
          /\ call'[c].key = p.key /\ call'[c].inc = p.inc /\ call'[c].pc = "inc"
          /\ call'[c].row = p.row + 1
      BY <1>1, <2>1, <2>6 DEF Locals
    <2>8. table \in [Gen -> [Row -> [Column -> Uint32]]] BY DEF Typed, TypeOK
    <2>9. ASSUME NEW g \in Gen, NEW r \in Row, NEW col \in Column
          PROVE  table'[g][r][col] = Cardinality(Into(g, r, col)') % Modulus
      <3>1. table[g][r][col] = Cardinality(Into(g, r, col)) % Modulus BY DEF SketchExact
      <3>2. IsFiniteSet(Into(g, r, col))
        BY FS_Subset DEF Into, Passed
      <3>3. CASE g = p.inc /\ r = p.row /\ col = at
        <4>1. c \notin Into(g, r, col)
          BY <2>1, <3>3 DEF Into, Passed, Locals
        <4>2. Into(g, r, col)' = Into(g, r, col) \cup {c}
          <5>1. SUFFICES ASSUME NEW d \in Call
                         PROVE  d \in Into(g, r, col)' <=> d \in Into(g, r, col) \cup {c}
            BY DEF Into, Passed
          <5>2. CASE d = c
            <6>1. call'[c].row > r BY <2>1, <2>7, <3>3 DEF Locals
            <6> QED BY <2>4, <2>7, <3>3, <5>2, <6>1 DEF Into, Passed
          <5>3. CASE d # c BY <2>7, <5>3 DEF Into, Passed
          <5> QED BY <5>2, <5>3
        <4>3. PICK n \in Nat : n = Cardinality(Into(g, r, col)) BY <3>2, FS_CardinalityType
        <4>4. Cardinality(Into(g, r, col)') = n + 1
          BY <3>2, <4>1, <4>2, <4>3, FS_AddElement
        <4>5. table'[g][r][col] = AddOne(table[g][r][col]) BY <2>2, <2>5, <2>8, <3>3
        <4>6. Modulus \in Nat \ {0} OBVIOUS
        <4>7. (n + 1) % Modulus = IF (n % Modulus) + 1 = Modulus THEN 0 ELSE (n % Modulus) + 1
          BY <4>3, <4>6, NextRemainder
        <4> QED BY <3>1, <4>3, <4>4, <4>5, <4>7, Zenon DEF AddOne
      <3>4. CASE ~ (g = p.inc /\ r = p.row /\ col = at)
        <4>1. table'[g][r][col] = table[g][r][col] BY <2>2, <2>5, <2>8, <3>4
        <4>2. Into(g, r, col)' = Into(g, r, col)
          <5>1. SUFFICES ASSUME NEW d \in Call
                         PROVE  d \in Into(g, r, col)' <=> d \in Into(g, r, col)
            BY DEF Into, Passed
          <5>2. CASE d = c
            <6>1. CASE g = p.inc /\ r = p.row
              <7>1. ColumnOf(g, r, p.key) # col BY <2>4, <3>4, <6>1
              <7> QED BY <2>7, <5>2, <7>1 DEF Into, Passed
            <6>2. CASE g # p.inc BY <2>7, <5>2, <6>2 DEF Into, Passed
            <6>3. CASE r # p.row
              <7>1. call'[c].row > r <=> p.row > r BY <2>1, <2>2, <2>7, <6>3 DEF Row
              <7> QED BY <2>1, <2>7, <5>2, <7>1 DEF Into, Passed
            <6> QED BY <6>1, <6>2, <6>3
          <5>3. CASE d # c BY <2>7, <5>3 DEF Into, Passed
          <5> QED BY <5>2, <5>3
        <4> QED BY <3>1, <4>1, <4>2
      <3> QED BY <3>3, <3>4
    <2> QED BY <2>9 DEF SketchExact
  <1>4. ASSUME NEW c \in Call,
               \/ \E k \in Key : AdmitStart(c, k)
               \/ Knock(c) \/ Allow(c) \/ LoadSketch(c) \/ ReadRow(c) \/ Conclude(c)
        PROVE  SketchExact'
    BY <1>4, KeepsCounted, ExactFrame
  <1>5. ASSUME RotatePrev \/ RotateCurr \/ RotateDoor PROVE SketchExact'
    BY <1>5, ExactFrame DEF RotatePrev, RotateCurr, RotateDoor
  <1>6. ASSUME UNCHANGED vars PROVE SketchExact'
    BY <1>6, ExactFrame DEF vars, shared
  <1> QED BY <1>2, <1>3, <1>4, <1>5, <1>6 DEF Next, CallStep

LEMMA ExactInit == ASSUME Init PROVE SketchExact
  <1>1. SUFFICES ASSUME NEW g \in Gen, NEW r \in Row, NEW col \in Column
                 PROVE  table[g][r][col] = Cardinality(Into(g, r, col)) % Modulus
    BY DEF SketchExact
  <1>2. Into(g, r, col) = {} BY DEF Init, Into, Passed, New
  <1>3. Cardinality({}) = 0 BY FS_EmptySet
  <1>4. Modulus \in Nat \ {0} /\ 0 \in Nat /\ 0 < Modulus BY LfuAssumption
  <1>5. 0 % Modulus = 0 BY <1>4, SmallRemainder
  <1>6. table[g][r][col] = 0 BY DEF Init
  <1> QED BY <1>2, <1>3, <1>5, <1>6

\* No increment of a sketch is lost or made twice, modulo 2^32.
THEOREM SketchIsExact == Spec => []SketchExact
  <1>1. Init => Typed BY TypedInit
  <1>2. Init => SketchExact BY ExactInit
  <1>3. Typed /\ SketchExact /\ [Next]_vars => Typed' /\ SketchExact'
    BY TypedStep, ExactNext
  <1> QED BY <1>1, <1>2, <1>3, PTL DEF Spec

-------------------------------------------------------------------------------
(***************************************************************************)
(* Estimates.  What an estimate has read is at least the number of its     *)
(* key's increments that had passed all rows when it loaded the sketch:    *)
(* that number only grows, and every cell the key maps to is as large.     *)
(***************************************************************************)
FloorOf(c) == /\ call[c].floor <= Cardinality(Of(call[c].gen, Depth, Asked(c)))
              /\ call[c].low >= call[c].floor
Floors == \A c \in Call : call[c].pc = "read" => FloorOf(c)

\* An increment under way stays with its key and sketch, and only moves on.
LEMMA MovesOn ==
    ASSUME Typed, [Next]_vars, NEW d \in Call, call[d].pc # "new"
    PROVE  /\ call'[d].pc # "new" /\ call'[d].key = call[d].key /\ call'[d].inc = call[d].inc
           /\ call'[d].row >= call[d].row
  <1>1. call \in [Call -> Locals] /\ call[d].row \in Int BY TypedLocals DEF Locals
  <1>2. ASSUME NEW c \in Call, NEW k \in Key, Start(c, k) PROVE call'[d] = call[d]
    BY <1>1, <1>2 DEF Start, At
  <1>3. ASSUME NEW c \in Call, IncRow(c)
        PROVE  /\ call'[d].pc # "new" /\ call'[d].key = call[d].key
               /\ call'[d].inc = call[d].inc /\ call'[d].row >= call[d].row
    BY <1>1, <1>3 DEF IncRow, At, Locals
  <1>4. ASSUME NEW c \in Call,
               \/ \E k \in Key : AdmitStart(c, k)
               \/ Knock(c) \/ Allow(c) \/ LoadSketch(c) \/ ReadRow(c) \/ Conclude(c)
        PROVE  call'[d] = call[d] \/ Counted(call'[d], call[d])
    BY <1>4, KeepsCounted
  <1>5. CASE RotatePrev \/ RotateCurr \/ RotateDoor \/ UNCHANGED vars
    BY <1>1, <1>5 DEF RotatePrev, RotateCurr, RotateDoor, vars
  <1> QED BY <1>1, <1>2, <1>3, <1>4, <1>5 DEF Next, CallStep, Counted

LEMMA OfGrows ==
    ASSUME Typed, [Next]_vars, NEW g \in Gen, NEW r \in Int, NEW k \in Key
    PROVE  /\ Cardinality(Of(g, r, k)) \in Nat
           /\ Cardinality(Of(g, r, k)) <= Cardinality(Of(g, r, k)')
           /\ Cardinality(Of(g, r, k)) <= Cardinality(Call)
  <1>1. Of(g, r, k) \subseteq Of(g, r, k)'
    <2>1. SUFFICES ASSUME NEW d \in Call, call[d].pc # "new", call[d].inc = g,
                          call[d].row > r, call[d].key = k
                   PROVE  d \in Of(g, r, k)'
      BY DEF Of, Passed
    <2>2. call[d].row \in Int /\ call'[d].row \in Int
      <3>1. Typed' BY TypedStep
      <3>2. call \in [Call -> Locals] /\ call' \in [Call -> Locals]
        BY <3>1 DEF Typed, TypeOK, Locals
      <3> QED BY <3>2 DEF Locals
    <2> QED BY <2>1, <2>2, MovesOn DEF Of, Passed
  <1>2. Of(g, r, k) \subseteq Call /\ Of(g, r, k)' \subseteq Call BY DEF Of, Passed
  <1>3. IsFiniteSet(Call) BY LfuAssumption
  <1>4. IsFiniteSet(Of(g, r, k)') /\ IsFiniteSet(Of(g, r, k)) BY <1>2, <1>3, FS_Subset
  <1>5. Cardinality(Of(g, r, k)) <= Cardinality(Of(g, r, k)') BY <1>1, <1>4, FS_Subset
  <1>6. Cardinality(Of(g, r, k)) <= Cardinality(Call) BY <1>2, <1>3, FS_Subset
  <1> QED BY <1>4, <1>5, <1>6, FS_CardinalityType

LEMMA CardOfNext ==
    ASSUME NEW g, NEW r, NEW k
    PROVE  Cardinality(Of(g, r, k)') \in Nat
  <1>1. Of(g, r, k)' \subseteq Call BY DEF Of, Passed
  <1> QED BY <1>1, LfuAssumption, FS_Subset, FS_CardinalityType

\* A cell of key k holds no fewer than the increments of k that are past all rows.
LEMMA CellFloor ==
    ASSUME Typed, SketchExact, Cardinality(Call) < Modulus,
           NEW g \in Gen, NEW r \in Row, NEW k \in Key
    PROVE  table[g][r][ColumnOf(g, r, k)] >= Cardinality(Of(g, Depth, k))
  <1> USE LfuAssumption
  <1>1. PICK col \in Column : col = ColumnOf(g, r, k) OBVIOUS
  <1>2. Of(g, Depth, k) \subseteq Into(g, r, col) /\ Into(g, r, col) \subseteq Call
    <2>1. \A d \in Call : call[d].row \in Int
      BY TypedLocals DEF Locals
    <2> QED BY <1>1, <2>1 DEF Of, Into, Passed, Row
  <1>3. IsFiniteSet(Into(g, r, col)) /\ IsFiniteSet(Of(g, Depth, k)) BY <1>2, FS_Subset
  <1>4. /\ Cardinality(Of(g, Depth, k)) <= Cardinality(Into(g, r, col))
        /\ Cardinality(Into(g, r, col)) <= Cardinality(Call)
    BY <1>2, <1>3, FS_Subset
  <1>5. PICK n \in Nat : n = Cardinality(Into(g, r, col)) BY <1>3, FS_CardinalityType
  <1>6. Cardinality(Of(g, Depth, k)) \in Nat /\ Cardinality(Call) \in Nat
    BY <1>3, FS_CardinalityType
  <1>7. n < Modulus /\ Modulus \in Nat \ {0} BY <1>4, <1>5, <1>6
  <1>8. n % Modulus = n BY <1>5, <1>7, SmallRemainder
  <1>9. table[g][r][col] = n BY <1>5, <1>8 DEF SketchExact
  <1> QED BY <1>1, <1>4, <1>5, <1>9

LEMMA FloorsNext ==
    ASSUME Typed, SketchExact, Cardinality(Call) < Modulus, Floors, [Next]_vars
    PROVE  Floors'
  <1> USE LfuAssumption
  <1>1. Typed' BY TypedStep
  <1>2. call \in [Call -> Locals] /\ call' \in [Call -> Locals]
    BY <1>1 DEF Typed, TypeOK, Locals
  <1>3. SUFFICES ASSUME NEW d \in Call, call'[d].pc = "read"
                 PROVE  FloorOf(d)'
    BY DEF Floors
  <1>4. Depth \in Int OBVIOUS
  \* An estimate that does not move: the number it stands on only grew.
  <1>5. CASE call'[d] = call[d]
    <2>1. call[d].pc = "read" /\ FloorOf(d) BY <1>3, <1>5 DEF Floors
    <2>2. PICK k \in Key : k = Asked(d) BY <2>1 DEF Asked, Typed, KeysKnown
    <2>3. PICK g \in Gen : g = call[d].gen BY <1>2 DEF Locals
    <2>4. Asked(d)' = k BY <1>5, <2>2 DEF Asked
    <2>5. call[d].floor \in Nat /\ call[d].low \in Nat BY <1>2 DEF Locals, Uint32
    <2>6. Cardinality(Of(g, Depth, k)) <= Cardinality(Of(g, Depth, k)')
          /\ Cardinality(Of(g, Depth, k)) \in Nat
      BY <1>4, OfGrows
    <2>7. Cardinality(Of(g, Depth, k)') \in Nat BY CardOfNext
    <2>8. call[d].floor <= Cardinality(Of(g, Depth, k)) /\ call[d].low >= call[d].floor
      BY <2>1, <2>2, <2>3 DEF FloorOf
    <2>9. call[d].floor <= Cardinality(Of(g, Depth, k)') BY <2>5, <2>6, <2>7, <2>8
    <2> QED BY <1>5, <2>3, <2>4, <2>8, <2>9 DEF FloorOf
  \* An estimate that loads a sketch starts from the largest word there is.
  <1>6. CASE LoadSketch(d)
    <2>1. call[d].pc = "load" BY <1>6 DEF LoadSketch, At
    <2>2. PICK k \in Key : k = Asked(d) BY <2>1 DEF Asked, Typed, KeysKnown
    <2>3. PICK g \in Gen : g = Consulted(d) BY TypedLocals DEF Consulted
    <2>4. PICK f \in Nat : f = Cardinality(Of(g, Depth, k)) BY <1>4, OfGrows
    <2>5. call' = [call EXCEPT ![d] = [call[d] EXCEPT
            !.pc = "read", !.gen = g, !.at = 1, !.low = Modulus - 1, !.floor = f]]
      BY <1>6, <2>2, <2>3, <2>4, Zenon DEF LoadSketch
    <2>6. /\ call'[d].gen = g /\ call'[d].floor = f /\ call'[d].low = Modulus - 1
          /\ call'[d].key = call[d].key /\ call'[d].old = call[d].old
          /\ call'[d].part = call[d].part
      BY <1>2, <2>5 DEF Locals
    <2>7. Asked(d)' = k BY <2>2, <2>6 DEF Asked
    <2>8. f <= Cardinality(Of(g, Depth, k)') /\ f <= Cardinality(Call)
      BY <1>4, <2>4, OfGrows
    <2>9. Cardinality(Call) \in Nat BY FS_CardinalityType
    <2>10. f <= Modulus - 1 BY <2>8, <2>9
    <2> QED BY <2>6, <2>7, <2>8, <2>10 DEF FloorOf
  \* The cell read next is large enough.
  <1>7. CASE ReadRow(d)
    <2>1. call[d].pc = "read" /\ call[d].at <= Depth BY <1>7 DEF ReadRow, At
    <2>2. FloorOf(d) BY <2>1 DEF Floors
    <2>3. PICK k \in Key : k = Asked(d) BY <2>1 DEF Asked, Typed, KeysKnown
    <2>4. PICK g \in Gen, r \in Row : g = call[d].gen /\ r = call[d].at
      BY <1>2, <2>1 DEF Locals, Row
    <2>5. PICK n \in Nat : n = table[g][r][ColumnOf(g, r, k)]
      <3>1. PICK col \in Column : col = ColumnOf(g, r, k) OBVIOUS
      <3>2. table \in [Gen -> [Row -> [Column -> Uint32]]] BY DEF Typed, TypeOK
      <3> QED BY <3>1, <3>2 DEF Uint32
    <2>6. call[d].floor \in Nat /\ call[d].low \in Nat BY <1>2 DEF Locals, Uint32
    <2> DEFINE m == IF n < call[d].low THEN n ELSE call[d].low
    <2>7. call' = [call EXCEPT ![d] = [call[d] EXCEPT !.at = r + 1, !.low = m]]
      BY <1>7, <2>3, <2>4, <2>5, Zenon DEF ReadRow
    <2>8. /\ Cardinality(Of(g, Depth, k)) \in Nat
          /\ Cardinality(Of(g, Depth, k)) <= Cardinality(Of(g, Depth, k)')
      BY <1>4, OfGrows
    <2>9. n >= Cardinality(Of(g, Depth, k)) BY <2>5, CellFloor
    <2>10. call[d].floor <= Cardinality(Of(g, Depth, k)) /\ call[d].low >= call[d].floor
      BY <2>2, <2>3, <2>4 DEF FloorOf
    <2>11. m >= call[d].floor BY <2>6, <2>8, <2>9, <2>10
    <2> HIDE DEF m
    <2>12. /\ call'[d].gen = g /\ call'[d].floor = call[d].floor /\ call'[d].low = m
           /\ call'[d].key = call[d].key /\ call'[d].old = call[d].old
           /\ call'[d].part = call[d].part
      BY <1>2, <2>4, <2>7 DEF Locals
    <2>13. Asked(d)' = k BY <2>3, <2>12 DEF Asked
    <2>14. Cardinality(Of(g, Depth, k)') \in Nat BY CardOfNext
    <2>15. call[d].floor <= Cardinality(Of(g, Depth, k)') BY <2>6, <2>8, <2>10, <2>14
    <2> QED BY <2>11, <2>12, <2>13, <2>15 DEF FloorOf
  \* No other step begins or continues an estimate of d.
  <1>8. ASSUME NEW c \in Call, NEW k \in Key, Start(c, k) PROVE call'[d] = call[d]
    BY <1>2, <1>3, <1>8 DEF Start, New
  <1>9. ASSUME NEW c \in Call, IncRow(c) PROVE call'[d] = call[d]
    BY <1>2, <1>3, <1>9 DEF IncRow, At, Locals
  <1>10. ASSUME NEW c \in Call,
                \/ \E k \in Key : AdmitStart(c, k)
                \/ Knock(c) \/ Allow(c) \/ LoadSketch(c) \/ ReadRow(c) \/ Conclude(c)
         PROVE  call'[d] = call[d] \/ LoadSketch(d) \/ ReadRow(d)
    <2>1. /\ \A e \in Call : e # c => call'[e] = call[e]
          /\ LoadSketch(c) \/ ReadRow(c) \/ call'[c].pc # "read"
      BY <1>10, KeepsCounted
    <2> QED BY <1>3, <2>1
  <1>11. CASE RotatePrev \/ RotateCurr \/ RotateDoor \/ UNCHANGED vars
    BY <1>5, <1>11 DEF RotatePrev, RotateCurr, RotateDoor, vars
  <1> QED BY <1>5, <1>6, <1>7, <1>8, <1>9, <1>10, <1>11 DEF Next, CallStep

\* An estimate never falls below the increments of its key that had finished when
\* it loaded the sketch.
THEOREM EstimatesHaveAFloor == Spec => []EstimateFloor
  <1>1. CASE Cardinality(Call) < Modulus
    <2>1. Init => Typed /\ SketchExact BY TypedInit, ExactInit
    <2>2. Init => Floors BY DEF Init, Floors, New
    <2>3. Typed /\ SketchExact /\ Floors /\ [Next]_vars => Typed' /\ SketchExact' /\ Floors'
      BY <1>1, TypedStep, ExactNext, FloorsNext
    <2>4. Floors => EstimateFloor BY DEF Floors, FloorOf, EstimateFloor, At
    <2> QED BY <2>1, <2>2, <2>3, <2>4, PTL DEF Spec
  <1>2. CASE ~ (Cardinality(Call) < Modulus)
    <2>1. EstimateFloor BY <1>2 DEF EstimateFloor
    <2> QED BY <2>1, PTL
  <1> QED BY <1>1, <1>2
===============================================================================
