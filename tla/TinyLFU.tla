-------------------------------- MODULE TinyLFU --------------------------------
(***************************************************************************)
(* pkg/storage/lfu: the admission filter every Set consults.  Two          *)
(* count-min sketches (this minute's and the last one's) and a doorkeeper  *)
(* (a Bloom filter) are updated by any number of Sets without a lock while *)
(* a ticker replaces them one pointer after the other.                     *)
(*                                                                         *)
(* A sketch or a doorkeeper is known by its generation.  Its hash          *)
(* functions are seeded at random, so the columns and the bits a key maps  *)
(* to are arbitrary functions of the generation.  t.door is a plain field  *)
(* that Rotate races with; a read of it returns the old or the new pointer,*)
(* which is what the interleaving with Rotate's last step gives.           *)
(***************************************************************************)
EXTENDS Integers, FiniteSets

CONSTANTS
    Key, NoKey,    \* keys; no key
    Call,          \* calls of Set, each used once
    Depth,         \* sketchDepth, 4 in the code
    Column,        \* columns of a row
    ColumnOf(_, _, _),  \* the column of a generation's row, for a key
    Bit,           \* bits of a doorkeeper
    BitOf(_, _, _),     \* the first or second bit of a generation, for a key
    Modulus,       \* 2^32: where a uint32 wraps
    MaxRotations   \* bound: calls of Rotate

Row == 1..Depth
Gen == 0..(MaxRotations + 1)

ASSUME LfuAssumption ==
    /\ IsFiniteSet(Call) /\ NoKey \notin Key /\ MaxRotations \in Nat
    /\ Depth \in Nat \ {0} /\ Modulus \in Nat \ {0, 1}
    /\ \A g \in Gen, k \in Key : /\ \A r \in Row : ColumnOf(g, r, k) \in Column
                                 /\ \A i \in {1, 2} : BitOf(g, i, k) \in Bit

VARIABLES
    table,        \* generation -> row -> column -> counter
    bits,         \* generation of a doorkeeper -> the bits set in it
    curr, prev,   \* generations of the two sketches in use
    door,         \* generation of the doorkeeper in use
    rotate,       \* the store Rotate makes next: "prev", "curr" or "door"
    call          \* call -> its program counter and locals

shared == <<table, bits, curr, prev, door, rotate>>
vars == <<shared, call>>

\* key, old: the keys of the new entry and of the victim; inc, row: the sketch
\* being incremented and its next row; gen, at: the same for an estimate; door,
\* knocked: the doorkeeper in hand, and the one Increment knocked at; b1: the first
\* bit as read; part: what is estimated (1, 2: the new key in curr, in prev; 3, 4:
\* the victim); low: the least counter read; floor: see EstimateFloor; sum: c;
\* freq: newFreq; verdict: what Admit returned, "free" when the doorkeeper said so.
New == [pc |-> "new", key |-> NoKey, old |-> NoKey, inc |-> 0, gen |-> 0, row |-> 1,
        at |-> 1, door |-> 0, knocked |-> -1, b1 |-> FALSE, part |-> 0, low |-> 0,
        floor |-> 0, sum |-> 0, freq |-> 0, verdict |-> "none"]

Init ==
    /\ table = [g \in Gen |-> [r \in Row |-> [col \in Column |-> 0]]]
    /\ bits = [g \in Gen |-> {}]
    /\ prev = 0 /\ curr = 1 /\ door = 1
    /\ rotate = "prev"
    /\ call = [c \in Call |-> New]

At(c, pc) == call[c].pc = pc
BitsOf(g, k) == {BitOf(g, 1, k), BitOf(g, 2, k)}

-------------------------------------------------------------------------------
\* Increment loads the current sketch ..
Start(c, k) ==
    /\ At(c, "new")
    /\ call' = [call EXCEPT ![c] = [New EXCEPT !.pc = "inc", !.key = k, !.inc = curr]]
    /\ UNCHANGED shared

\* .. adds one to a counter of each row ..  (A name ending in V is that of a slip
\* a change to the code could make; nothing uses it.)
AddOne(n) == IF n + 1 = Modulus THEN 0 ELSE n + 1

IncRowV(c) ==                                            \* Load and Store, not Add
    LET p == call[c]
    IN  /\ At(c, "inc") /\ p.row <= Depth
        /\ IF p.b1
           THEN /\ table' = [table EXCEPT ![p.inc][p.row][ColumnOf(p.inc, p.row, p.key)] = AddOne(p.low)]
                /\ call' = [call EXCEPT ![c].row = p.row + 1, ![c].b1 = FALSE]
           ELSE /\ call' = [call EXCEPT ![c].low = table[p.inc][p.row][ColumnOf(p.inc, p.row, p.key)],
                                        ![c].b1 = TRUE]
                /\ UNCHANGED table
        /\ UNCHANGED <<bits, curr, prev, door, rotate>>
IncRow(c) ==
    LET p == call[c]
    IN  /\ At(c, "inc") /\ p.row <= Depth
        /\ table' = [table EXCEPT ![p.inc][p.row][ColumnOf(p.inc, p.row, p.key)] = AddOne(@)]
        /\ call' = [call EXCEPT ![c].row = p.row + 1]
        /\ UNCHANGED <<bits, curr, prev, door, rotate>>

\* .. and knocks at the doorkeeper, as Admit will.
Knock(c) ==
    /\ (At(c, "inc") /\ call[c].row > Depth) \/ At(c, "admit")
    /\ call' = [call EXCEPT ![c].pc = "bit1", ![c].door = door]
    /\ UNCHANGED shared

\* Allow: two loads; a key seen before is let in, another one leaves its bits.
LoadBit1(c) ==
    /\ At(c, "bit1")
    /\ call' = [call EXCEPT ![c].pc = "bit2",
                            ![c].b1 = BitOf(call[c].door, 1, call[c].key) \in bits[call[c].door]]
    /\ UNCHANGED shared

\* Increment drops Allow's answer, Admit goes by it.
Inside(c) ==
    IF call[c].knocked = -1
    THEN call' = [call EXCEPT ![c].pc = "counted", ![c].knocked = call[c].door]
    ELSE call' = [call EXCEPT ![c].pc = "load", ![c].part = 1]
Outside(c) ==
    IF call[c].knocked = -1
    THEN call' = [call EXCEPT ![c].pc = "counted", ![c].knocked = call[c].door]
    ELSE call' = [call EXCEPT ![c].pc = "done", ![c].verdict = "free"]

LoadBit2(c) ==
    /\ At(c, "bit2")
    /\ IF call[c].b1 /\ BitOf(call[c].door, 2, call[c].key) \in bits[call[c].door]
       THEN Inside(c)
       ELSE call' = [call EXCEPT ![c].pc = "or1"]
    /\ UNCHANGED shared

OrBit1(c) ==
    LET d == call[c].door
    IN  /\ At(c, "or1")
        /\ bits' = [bits EXCEPT ![d] = @ \cup {BitOf(d, 1, call[c].key)}]
        /\ call' = [call EXCEPT ![c].pc = "or2"]
        /\ UNCHANGED <<table, curr, prev, door, rotate>>

OrBit2V(c) ==                                            \* the first one again
    LET d == call[c].door
    IN  /\ At(c, "or2")
        /\ bits' = [bits EXCEPT ![d] = @ \cup {BitOf(d, 1, call[c].key)}]
        /\ Outside(c)
        /\ UNCHANGED <<table, curr, prev, door, rotate>>
OrBit2(c) ==
    LET d == call[c].door
    IN  /\ At(c, "or2")
        /\ bits' = [bits EXCEPT ![d] = @ \cup {BitOf(d, 2, call[c].key)}]
        /\ Outside(c)
        /\ UNCHANGED <<table, curr, prev, door, rotate>>

-------------------------------------------------------------------------------
\* Admit, if the storage is full: the victim's key comes from the balancer.
AdmitStart(c, k) ==
    /\ At(c, "counted")
    /\ call' = [call EXCEPT ![c].pc = "admit", ![c].old = k]
    /\ UNCHANGED shared

\* Increments that are past row r of sketch g and added to the given column there;
\* increments of key k that are past row r of sketch g.
Passed(g, r) == {c \in Call : call[c].pc # "new" /\ call[c].inc = g /\ call[c].row > r}
Into(g, r, col) == {c \in Passed(g, r) : ColumnOf(g, r, call[c].key) = col}
Of(g, r, k) == {c \in Passed(g, r) : call[c].key = k}

\* The key and the sketch the estimate under way is about.
Asked(c) == IF call[c].part <= 2 THEN call[c].key ELSE call[c].old
Consulted(c) == IF call[c].part \in {1, 3} THEN curr ELSE prev

\* estimate loads one of the two sketches (floor: the increments that had passed
\* every row by then) ..
LoadSketchV(c) ==                                        \* mins starts at zero
    /\ At(c, "load")
    /\ call' = [call EXCEPT ![c].pc = "read", ![c].gen = Consulted(c), ![c].at = 1,
                            ![c].low = 0,
                            ![c].floor = Cardinality(Of(Consulted(c), Depth, Asked(c)))]
    /\ UNCHANGED shared
LoadSketch(c) ==
    /\ At(c, "load")
    /\ call' = [call EXCEPT ![c].pc = "read", ![c].gen = Consulted(c), ![c].at = 1,
                            ![c].low = Modulus - 1,
                            ![c].floor = Cardinality(Of(Consulted(c), Depth, Asked(c)))]
    /\ UNCHANGED shared

\* .. takes the least of its counters ..
ReadRow(c) ==
    LET p == call[c]
        n == table[p.gen][p.at][ColumnOf(p.gen, p.at, Asked(c))]
    IN  /\ At(c, "read") /\ p.at <= Depth
        /\ call' = [call EXCEPT ![c].at = p.at + 1, ![c].low = IF n < p.low THEN n ELSE p.low]
        /\ UNCHANGED shared

\* .. and halves the sum of both sketches; the new key's frequency comes first.
Halved(p) == ((p.sum + p.low) % Modulus) \div 2
Conclude(c) ==
    LET p == call[c]
    IN  /\ At(c, "read") /\ p.at > Depth
        /\ \/ /\ p.part \in {1, 3}
              /\ call' = [call EXCEPT ![c] =
                            [p EXCEPT !.pc = "load", !.sum = p.low, !.part = p.part + 1]]
           \/ /\ p.part = 2
              /\ call' = [call EXCEPT ![c] =
                            [p EXCEPT !.pc = "load", !.freq = Halved(p), !.part = 3]]
           \/ /\ p.part = 4
              /\ call' = [call EXCEPT ![c] = [p EXCEPT !.pc = "done", !.verdict =
                            IF p.freq >= Halved(p) THEN "admit" ELSE "refuse"]]
        /\ UNCHANGED shared

-------------------------------------------------------------------------------
\* Rotate: three stores, of which Sets may see the first without the others.
RotatePrev ==
    /\ rotate = "prev" /\ curr <= MaxRotations
    /\ prev' = curr /\ rotate' = "curr"
    /\ UNCHANGED <<table, bits, curr, door, call>>
RotateCurr ==
    /\ rotate = "curr"
    /\ curr' = curr + 1 /\ rotate' = "door"
    /\ UNCHANGED <<table, bits, prev, door, call>>
RotateDoor ==
    /\ rotate = "door"
    /\ door' = curr /\ rotate' = "prev"
    /\ UNCHANGED <<table, bits, curr, prev, call>>

Allow(c) == LoadBit1(c) \/ LoadBit2(c) \/ OrBit1(c) \/ OrBit2(c)
CallStep(c) ==
    \/ \E k \in Key : Start(c, k) \/ AdmitStart(c, k)
    \/ IncRow(c) \/ Knock(c) \/ Allow(c)
    \/ LoadSketch(c) \/ ReadRow(c) \/ Conclude(c)

Next ==
    \/ \E c \in Call : CallStep(c)
    \/ RotatePrev \/ RotateCurr \/ RotateDoor

Spec == Init /\ [][Next]_vars

-------------------------------------------------------------------------------
(***************************************************************************)
(* Properties                                                              *)
(***************************************************************************)
Pcs == {"new", "inc", "bit1", "bit2", "or1", "or2", "counted", "admit", "load", "read", "done"}
Uint32 == 0..(Modulus - 1)

\* Types: counters stay below the modulus, pointers stay within the generations,
\* and a row in hand is one of the table's or just past it.
TypeOK ==
    /\ table \in [Gen -> [Row -> [Column -> Uint32]]]
    /\ bits \in [Gen -> SUBSET Bit]
    /\ curr \in Gen /\ prev \in Gen /\ door \in Gen
    /\ rotate \in {"prev", "curr", "door"}
    /\ call \in [Call -> [pc : Pcs, key : Key \cup {NoKey}, old : Key \cup {NoKey},
                          inc : Gen, gen : Gen, row : 1..(Depth + 1), at : 1..(Depth + 1),
                          door : Gen, knocked : Gen \cup {-1}, b1 : BOOLEAN, part : 0..4,
                          low : Uint32, floor : Nat, sum : Uint32, freq : Uint32,
                          verdict : {"none", "free", "admit", "refuse"}]]

\* Every cell holds the number of increments that added to it, modulo 2^32: no
\* increment is lost or made twice, however Sets and rotations interleave.
SketchExact ==
    \A g \in Gen, r \in Row, col \in Column :
        table[g][r][col] = Cardinality(Into(g, r, col)) % Modulus

\* While fewer than 2^32 Sets were made, an estimate never falls below the number
\* of increments of its key that had finished when it loaded the sketch.
EstimateFloor ==
    \A c \in Call : At(c, "read") /\ Cardinality(Call) < Modulus => call[c].low >= call[c].floor

\* A Set whose own Increment left its bits is let in by the doorkeeper; so Admit
\* gives its free pass only if Rotate replaced the doorkeeper in between.
FreePassNeedsRotation ==
    \A c \in Call : call[c].verdict = "free" => call[c].door # call[c].knocked
===============================================================================
