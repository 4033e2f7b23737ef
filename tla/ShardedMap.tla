------------------------------ MODULE ShardedMap ------------------------------
(***************************************************************************)
(* pkg/storage/map: the sharded map and its counters.  A shard's items are *)
(* guarded by its lock, but its len and mem are atomics that Set and       *)
(* Remove adjust AFTER they released the lock, one after the other, while  *)
(* Clear zeroes them under the lock and the scans (the memory refresher,   *)
(* RealMem) read them shard by shard without it.                           *)
(*                                                                         *)
(* A stored value is its weight; a weight that changes while the value is  *)
(* stored belongs to LruStorage.                                           *)
(***************************************************************************)
EXTENDS Integers, FiniteSets, Functions

CONSTANTS Key,           \* keys, naturals
          Weight,        \* weights a value may have
          ActiveShards,  \* 2047 in the code
          Thread,        \* goroutines that call Set, Remove
          Scanner,       \* the goroutines that sum the shards up, each its own kind
          MaxOps,        \* bound: calls of Set and Remove
          MaxClears      \* bound: calls of Clear

ASSUME MapAssumption ==
    /\ Key \subseteq Nat /\ IsFiniteSet(Key)
    /\ Weight \subseteq Nat \ {0}
    /\ ActiveShards \in Nat \ {0}
    /\ IsFiniteSet(Thread)
    /\ Scanner \subseteq {"refresher", "realMem"}
    /\ MaxOps \in Nat /\ MaxClears \in Nat

NumOfShards == ActiveShards + 2
Shard == 0..(NumOfShards - 1)
Absent == 0

\* The shard of a key: index 0 is rewritten to the last one.
MapShardKey(key) == IF key % ActiveShards = 0 THEN ActiveShards + 1 ELSE key % ActiveShards

VARIABLES
    items,   \* key -> the weight of its value, or Absent
    len,     \* shard -> the counter Shard.len
    mem,     \* shard -> the counter Shard.mem
    pend,    \* thread -> the atomic adds it still owes: [at, shard, dlen, dmem]
    clear,   \* shard -> where its goroutine of a Clear stands
    scan,    \* scanner -> [on, at, mem, len]: what it summed so far
    mapMem,  \* Map.mem, the published sum
    mapLen,  \* Map.len
    raced,   \* shards where a Clear zeroed a counter some thread still owed an add
    ops,     \* Set and Remove calls so far
    clears   \* Clear calls so far

tables == <<items, len, mem>>
published == <<mapMem, mapLen>>
vars == <<items, len, mem, pend, clear, scan, mapMem, mapLen, raced, ops, clears>>

Idle == [at |-> "idle", shard |-> 0, dlen |-> 0, dmem |-> 0]
Rest == [on |-> FALSE, at |-> 0, mem |-> 0, len |-> 0]

TypeOK ==
    /\ items \in [Key -> Weight \cup {Absent}]
    /\ len \in [Shard -> Int] /\ mem \in [Shard -> Int]
    /\ pend \in [Thread -> [at : {"idle", "len", "mem"}, shard : Shard,
                            dlen : {-1, 0, 1}, dmem : Int]]
    /\ clear \in [Shard -> {"no", "items", "mem", "len"}]
    /\ scan \in [Scanner -> [on : BOOLEAN, at : Nat, mem : Int, len : Int]]
    /\ mapMem \in Int /\ mapLen \in Int
    /\ raced \in SUBSET Shard
    /\ ops \in 0..MaxOps /\ clears \in 0..MaxClears

Init ==
    /\ items = [k \in Key |-> Absent]
    /\ len = [s \in Shard |-> 0] /\ mem = [s \in Shard |-> 0]
    /\ pend = [t \in Thread |-> Idle]
    /\ clear = [s \in Shard |-> "no"]
    /\ scan = [c \in Scanner |-> Rest]
    /\ mapMem = 0 /\ mapLen = 0
    /\ raced = {}
    /\ ops = 0 /\ clears = 0

\* Shard s is locked while a Clear is between its first and its last write.
Unlocked(s) == clear[s] \in {"no", "items"}

-------------------------------------------------------------------------------
\* (A definition whose name ends in V is a slip a change to the code could make;
\* nothing uses it.)
\* Shard.Set under the lock.  An overwrite owes mem one add, an insertion owes
\* len an add and then mem one.
Set(t, k, w) ==
    LET s == MapShardKey(k)
    IN  /\ pend[t].at = "idle" /\ Unlocked(s) /\ ops < MaxOps
        /\ items' = [items EXCEPT ![k] = w]
        /\ pend' = [pend EXCEPT ![t] =
              IF items[k] = Absent
              THEN [at |-> "len", shard |-> s, dlen |-> 1, dmem |-> w]
              ELSE [at |-> "mem", shard |-> s, dlen |-> 0, dmem |-> w - items[k]]]
        /\ ops' = ops + 1
        /\ UNCHANGED <<len, mem, clear, scan, published, raced, clears>>

\* Shard.Remove under the lock; a key that is not there changes nothing.
RemoveV(t, k) ==  \* frees the key twice: the entry stays
    /\ pend[t].at = "idle" /\ Unlocked(MapShardKey(k)) /\ ops < MaxOps
    /\ items[k] # Absent
    /\ pend' = [pend EXCEPT ![t] =
          [at |-> "len", shard |-> MapShardKey(k), dlen |-> -1, dmem |-> -items[k]]]
    /\ ops' = ops + 1
    /\ UNCHANGED <<tables, clear, scan, published, raced, clears>>
Remove(t, k) ==
    /\ pend[t].at = "idle" /\ Unlocked(MapShardKey(k)) /\ ops < MaxOps
    /\ items[k] # Absent
    /\ items' = [items EXCEPT ![k] = Absent]
    /\ pend' = [pend EXCEPT ![t] =
          [at |-> "len", shard |-> MapShardKey(k), dlen |-> -1, dmem |-> -items[k]]]
    /\ ops' = ops + 1
    /\ UNCHANGED <<len, mem, clear, scan, published, raced, clears>>

\* atomic.AddInt64(&shard.len, ..), after the lock was released
AddLen(t) ==
    LET p == pend[t]
    IN  /\ p.at = "len"
        /\ len' = [len EXCEPT ![p.shard] = @ + p.dlen]
        /\ pend' = [pend EXCEPT ![t].at = "mem"]
        /\ UNCHANGED <<items, mem, clear, scan, published, raced, ops, clears>>

\* atomic.AddInt64(&shard.mem, ..)
AddMem(t) ==
    LET p == pend[t]
    IN  /\ p.at = "mem"
        /\ mem' = [mem EXCEPT ![p.shard] = @ + p.dmem]
        /\ pend' = [pend EXCEPT ![t] = Idle]
        /\ UNCHANGED <<items, len, clear, scan, published, raced, ops, clears>>

-------------------------------------------------------------------------------
\* InMemoryStorage.Clear: WalkShards starts a goroutine for every shard.
ClearStart ==
    /\ clears < MaxClears /\ \A s \in Shard : clear[s] = "no"
    /\ clear' = [s \in Shard |-> "items"]
    /\ clears' = clears + 1
    /\ UNCHANGED <<tables, pend, scan, published, raced, ops>>

\* Shard.Clear: lock, delete every item ..
ClearItems(s) ==
    /\ clear[s] = "items"
    /\ items' = [k \in Key |-> IF MapShardKey(k) = s THEN Absent ELSE items[k]]
    /\ clear' = [clear EXCEPT ![s] = "mem"]
    /\ UNCHANGED <<len, mem, pend, scan, published, raced, ops, clears>>

\* .. store 0 in mem ..
ClearMem(s) ==
    /\ clear[s] = "mem"
    /\ mem' = [mem EXCEPT ![s] = 0]
    /\ raced' = IF \E t \in Thread : pend[t].at # "idle" /\ pend[t].shard = s
                THEN raced \cup {s} ELSE raced
    /\ clear' = [clear EXCEPT ![s] = "len"]
    /\ UNCHANGED <<items, len, pend, scan, published, ops, clears>>

\* .. store 0 in len, unlock.
ClearLen(s) ==
    /\ clear[s] = "len"
    /\ len' = [len EXCEPT ![s] = 0]
    /\ raced' = IF \E t \in Thread : pend[t].at = "len" /\ pend[t].shard = s
                THEN raced \cup {s} ELSE raced
    /\ clear' = [clear EXCEPT ![s] = "no"]
    /\ UNCHANGED <<items, mem, pend, scan, published, ops, clears>>

-------------------------------------------------------------------------------
\* A scan starts: the refresher's tick, or a call of RealMem.
ScanStart(c) ==
    /\ ~ scan[c].on
    /\ scan' = [scan EXCEPT ![c].on = TRUE]
    /\ UNCHANGED <<tables, pend, clear, published, raced, ops, clears>>

ScanReadV(c) ==                     \* the shards past ActiveShards are not summed
    LET p == scan[c]
        s == p.at \div 2
    IN  /\ p.on /\ p.at < 2 * NumOfShards
        /\ scan' = [scan EXCEPT ![c] =
              IF s >= ActiveShards THEN [p EXCEPT !.at = @ + 1]
              ELSE IF p.at % 2 = 0 THEN [p EXCEPT !.mem = @ + mem[s], !.at = @ + 1]
              ELSE [p EXCEPT !.len = @ + len[s], !.at = @ + 1]]
        /\ UNCHANGED <<tables, pend, clear, published, raced, ops, clears>>

\* mem += shard.Weight(), length += shard.Len(): position 2s reads the mem of
\* shard s, position 2s + 1 its len.
ScanRead(c) ==
    LET p == scan[c]
        s == p.at \div 2
    IN  /\ p.on /\ p.at < 2 * NumOfShards
        /\ scan' = [scan EXCEPT ![c] =
              IF p.at % 2 = 0 THEN [p EXCEPT !.mem = @ + mem[s], !.at = @ + 1]
                              ELSE [p EXCEPT !.len = @ + len[s], !.at = @ + 1]]
        /\ UNCHANGED <<tables, pend, clear, published, raced, ops, clears>>

\* The sums are stored: mem by both, len by the refresher alone.
ScanStore(c) ==
    LET p == scan[c]
    IN  /\ p.at = 2 * NumOfShards
        /\ mapMem' = p.mem
        /\ mapLen' = IF c = "refresher" THEN p.len ELSE mapLen
        /\ scan' = [scan EXCEPT ![c] = Rest]
        /\ UNCHANGED <<tables, pend, clear, raced, ops, clears>>

-------------------------------------------------------------------------------
ThreadStep(t) ==
    \/ \E k \in Key : Remove(t, k) \/ \E w \in Weight : Set(t, k, w)
    \/ AddLen(t) \/ AddMem(t)
ClearStep(s) == ClearItems(s) \/ ClearMem(s) \/ ClearLen(s)
ScanStep(c) == ScanStart(c) \/ ScanRead(c) \/ ScanStore(c)

Next ==
    \/ \E t \in Thread : ThreadStep(t)
    \/ ClearStart
    \/ \E s \in Shard : ClearStep(s)
    \/ \E c \in Scanner : ScanStep(c)

Spec == Init /\ [][Next]_vars

-------------------------------------------------------------------------------
(***************************************************************************)
(* Properties                                                              *)
(***************************************************************************)
Cached(s)   == {k \in Key : MapShardKey(k) = s /\ items[k] # Absent}
Owing(s)    == {t \in Thread : pend[t].at # "idle" /\ pend[t].shard = s}
Adding(s)   == {t \in Owing(s) : pend[t].at = "len" /\ pend[t].dlen = 1}
Removing(s) == {t \in Owing(s) : pend[t].at = "len" /\ pend[t].dlen = -1}

\* What the items of a shard weigh, and what the adds owed to its mem come to.
Held(s) == SumFunctionOnSet(items, Cached(s))
Owed(s) == SumFunctionOnSet([t \in Thread |-> pend[t].dmem], Owing(s))

\* Len() of a shard is the number of its keys, short of the adds that are still
\* owed - unless a Clear zeroed the counter while an add was owed to it.
LenExact ==
    \A s \in Shard : s \notin raced /\ Unlocked(s) =>
        len[s] = Cardinality(Cached(s)) - Cardinality(Adding(s)) + Cardinality(Removing(s))

\* The same of Weight(): what a shard holds is what its counter and the adds
\* still owed to it come to, whatever threads overwrote and removed meanwhile.
MemExact ==
    \A s \in Shard : s \notin raced /\ Unlocked(s) => mem[s] + Owed(s) = Held(s)

\* Once the calls stop, the sums published for Mem() and Len() become what the
\* map holds and stay so, torn scans notwithstanding.
SumsConverge ==
    <>[](raced = {} =>
            /\ mapMem = SumFunctionOnSet(items, Key)
            /\ mapLen = Cardinality({k \in Key : items[k] # Absent}))
===============================================================================
