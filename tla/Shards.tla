-------------------------------- MODULE Shards ---------------------------------
(***************************************************************************)
(* The storage over all its shards: the balancer's order of the shards by  *)
(* weight, its merge sort, the victims it finds, the evictor's walk from   *)
(* the heaviest shard on, and the statistics it sends to its logger.       *)
(*                                                                         *)
(* The steps of one Set or Remove, and what goes wrong between them, are   *)
(* LruStorage's; here each is one step, an LRU list is a sequence (the     *)
(* evictor is the only one that removes, so no element is removed twice),  *)
(* and an entry keeps its weight.  What a sort reads of the weights is     *)
(* what they are at one moment.                                            *)
(***************************************************************************)
EXTENDS Integers, FiniteSets, Sequences, SequencesExt, FiniteSetsExt, TLC

CONSTANTS
    NumOfShards, \* shards registered, those that never hold a key included
    Orders,      \* the orders in which WalkShards' goroutines register them
    Key,
    ShardOf,     \* key -> its shard (MapShardKey)
    WeightOf,    \* entry -> its weight
    Fat,         \* fatShardsPercentage: 17% of the configured number of shards
    Threshold,   \* memoryThreshold
    BalancerMem, \* Balance.Mem()
    StatCap,     \* capacity of evictionStatCh
    MaxEntries,  \* bound: entries ever stored
    MaxClears,   \* bound: calls of Clear
    Nil

Shard == 0..(NumOfShards - 1)
Entry == 1..MaxEntries

ASSUME ShardsAssumption ==
    /\ NumOfShards \in Nat \ {0} /\ Orders \subseteq SetToSeqs(Shard)
    /\ ShardOf \in [Key -> Shard]
    /\ WeightOf \in [Entry -> Nat \ {0}] /\ Threshold \in Nat \ {0}
    /\ Fat \in Nat /\ BalancerMem \in Nat /\ StatCap \in Nat \ {0}
    /\ MaxEntries \in Nat /\ MaxClears \in Nat /\ Nil \notin Entry \cup Shard

VARIABLES
    items,     \* key -> the entry stored, or Nil
    mem,       \* shard -> Shard.mem
    lru,       \* shard -> its LRU list, the front first
    memList,   \* the balancer's list of shards
    mapMem,    \* the published sum
    made, keyOf, \* entries: how many were built, and their keys
    ev,        \* the evictor: [pc, so, shard, off, items, freed]
    statCh,    \* evictionStatCh
    logged,    \* what the logger counted
    gone,      \* what was evicted (history)
    clears,    \* spent of MaxClears
    ctxDone    \* the context is cancelled

entries == <<made, keyOf>>
vars == <<items, mem, lru, memList, mapMem, entries, ev, statCh, logged, gone, clears, ctxDone>>

None == [items |-> 0, freed |-> 0]
Plus(a, b) == [items |-> a.items + b.items, freed |-> a.freed + b.freed]
Rest == [pc |-> "wait", so |-> 0, shard |-> Nil, off |-> 0, stat |-> None]

RealMem == SumFunction(mem)

\* Init: WalkShards registers the shards, one goroutine each, in any order.
Init ==
    /\ items = [k \in Key |-> Nil]
    /\ mem = [s \in Shard |-> 0] /\ lru = [s \in Shard |-> <<>>]
    /\ memList \in Orders
    /\ mapMem = 0
    /\ made = 0 /\ keyOf = [e \in Entry |-> Nil]
    /\ ev = Rest
    /\ statCh = <<>> /\ logged = None /\ gone = None
    /\ clears = 0 /\ ctxDone = FALSE

-------------------------------------------------------------------------------
(***************************************************************************)
(* List.Sort.  (A definition whose name ends in V is a slip a change to    *)
(* the code could make; nothing uses it.)                                  *)
(***************************************************************************)
\* mergeByWeight, behind the first i of a and j of b: of two equal weights the second
\* list's goes first.
MergeByWeight(a, b, w) ==
    LET f[p \in (0..Len(a)) \X (0..Len(b))] ==
          LET i == p[1]
              j == p[2]
          IN  IF i = Len(a) THEN SubSeq(b, j + 1, Len(b))
              ELSE IF j = Len(b) THEN SubSeq(a, i + 1, Len(a))
              ELSE IF w[a[i + 1]] > w[b[j + 1]] THEN <<a[i + 1]>> \o f[<<i + 1, j>>]
              ELSE <<b[j + 1]>> \o f[<<i, j + 1>>]
    IN  f[<<0, 0>>]

\* mergeSortByWeight of the n elements from the lo-th on: splitHalf leaves the longer
\* half in front; the second half is the left operand.
SplitHalf(n) == n - n \div 2
MergeSortV(s, w) ==                                      \* the halves change places
    LET f[n \in 0..Len(s)] ==
          [lo \in 1..(Len(s) - n + 1) |->
             IF n < 2 THEN SubSeq(s, lo, lo + n - 1)
             ELSE MergeByWeight(f[SplitHalf(n)][lo], f[n \div 2][lo + SplitHalf(n)], w)]
    IN  IF Len(s) < 2 THEN s ELSE f[Len(s)][1]
MergeSort(s, w) ==
    LET f[n \in 0..Len(s)] ==
          [lo \in 1..(Len(s) - n + 1) |->
             IF n < 2 THEN SubSeq(s, lo, lo + n - 1)
             ELSE MergeByWeight(f[n \div 2][lo + SplitHalf(n)], f[SplitHalf(n)][lo], w)]
    IN  IF Len(s) < 2 THEN s ELSE f[Len(s)][1]

\* Weight() of a shard is its counter.
Rebalanced == MergeSort(memList, mem)

-------------------------------------------------------------------------------
(***************************************************************************)
(* Get, Set and Clear                                                      *)
(***************************************************************************)
MoveToFront(s, e) == <<e>> \o RemoveFirst(s, e)

\* A Get that hits, or a Set of what is there.
Touch(k) ==
    LET s == ShardOf[k]
    IN  /\ items[k] # Nil
        /\ lru' = [lru EXCEPT ![s] = MoveToFront(@, items[k])]
        /\ UNCHANGED <<items, mem, memList, mapMem, entries, ev, statCh, logged, gone, clears, ctxDone>>

\* FindVictim: the back of the shard, of the next one, of the one before if that
\* is not shard 0.
FindVictim(s) ==
    LET near == <<s, s + 1, IF s - 1 > 0 THEN s - 1 ELSE s>>
        i    == SelectInSeq(near, LAMBDA n : n \in Shard /\ lru[n] # <<>>)
    IN  IF i = 0 THEN Nil ELSE Last(lru[near[i]])

\* A Set of a key that is not there: over the threshold it needs a victim, and
\* TinyLFU's consent, which is open (a refused Set changes nothing).
Insert(k) ==
    LET e == made + 1
        s == ShardOf[k]
    IN  /\ items[k] = Nil /\ made < MaxEntries
        /\ mapMem + BalancerMem >= Threshold => FindVictim(s) # Nil
        /\ made' = e
        /\ keyOf' = [keyOf EXCEPT ![e] = k]
        /\ items' = [items EXCEPT ![k] = e]
        /\ mem' = [mem EXCEPT ![s] = @ + WeightOf[e]]
        /\ lru' = [lru EXCEPT ![s] = <<e>> \o @]
        /\ UNCHANGED <<memList, mapMem, ev, statCh, logged, gone, clears, ctxDone>>

\* The LRU lists are not told.
Clear ==
    /\ clears < MaxClears
    /\ items' = [k \in Key |-> Nil] /\ mem' = [s \in Shard |-> 0]
    /\ clears' = clears + 1
    /\ UNCHANGED <<lru, memList, mapMem, entries, ev, statCh, logged, gone, ctxDone>>

-------------------------------------------------------------------------------
(***************************************************************************)
(* The evictor                                                             *)
(***************************************************************************)
EvAt(pc) == ev.pc = pc
Keep == UNCHANGED <<items, mem, lru, entries, clears, ctxDone>>

\* A tick, while the context stands or in spite of it: select takes either.
EvTick ==
    /\ EvAt("wait")
    /\ ev' = [Rest EXCEPT !.pc = "outer"]
    /\ Keep /\ UNCHANGED <<memList, mapMem, statCh, logged, gone>>

\* shouldEvictRightNow publishes the sum; the pass ends below the threshold.
EvOuter ==
    /\ EvAt("outer")
    /\ mapMem' = RealMem
    /\ ev' = IF RealMem >= Threshold THEN [ev EXCEPT !.pc = "pick"]
             ELSE IF ev.stat # None THEN [ev EXCEPT !.pc = "send"] ELSE Rest
    /\ Keep /\ UNCHANGED <<memList, statCh, logged, gone>>

EvPickV ==                                           \* the order is never renewed
    /\ EvAt("pick")
    /\ LET so == IF ev.so + 1 >= Fat THEN 0 ELSE ev.so + 1
           s  == IF so < Len(memList) THEN memList[so + 1] ELSE Nil
       IN  ev' = IF s = Nil \/ (s # Nil /\ lru[s] = <<>>)
                 THEN [ev EXCEPT !.pc = "outer", !.so = so]
                 ELSE [ev EXCEPT !.pc = "inner", !.so = so, !.shard = s, !.off = 0]
    /\ Keep /\ UNCHANGED <<memList, mapMem, statCh, logged, gone>>
\* The next shard of the list; past the fat ones the list is sorted again and the
\* heaviest is next.  An empty list is passed over.
EvPick ==
    /\ EvAt("pick")
    /\ LET again == ev.so + 1 >= Fat
           so    == IF again THEN 0 ELSE ev.so + 1
           order == IF again THEN Rebalanced ELSE memList
           s     == IF so < Len(order) THEN order[so + 1] ELSE Nil
       IN  /\ memList' = order
           /\ ev' = IF s = Nil \/ (s # Nil /\ lru[s] = <<>>)
                    THEN [ev EXCEPT !.pc = "outer", !.so = so]
                    ELSE [ev EXCEPT !.pc = "inner", !.so = so, !.shard = s, !.off = 0]
    /\ Keep /\ UNCHANGED <<mapMem, statCh, logged, gone>>

EvInner ==
    /\ EvAt("inner")
    /\ mapMem' = RealMem
    /\ ev' = [ev EXCEPT !.pc = IF RealMem >= Threshold THEN "remove" ELSE "outer"]
    /\ Keep /\ UNCHANGED <<memList, statCh, logged, gone>>

\* Next(offset) and Remove: out of the list, and out of the map by key, which may
\* hold another entry by now, or none (a miss).
EvRemoveV ==                                         \* a miss is counted, too
    LET s == ev.shard
        e == lru[s][ev.off + 1]
        k == keyOf[e]
        one == [items |-> 1, freed |-> WeightOf[e]]
    IN  /\ EvAt("remove")
        /\ IF ev.off >= Len(lru[s])
           THEN ev' = [ev EXCEPT !.pc = "outer"] /\ UNCHANGED <<lru, items, mem, gone>>
           ELSE /\ lru' = [lru EXCEPT ![s] = RemoveAt(@, ev.off + 1)]
                /\ items' = [items EXCEPT ![k] = Nil]
                /\ mem' = [mem EXCEPT ![s] = @ - (IF items[k] = Nil THEN 0 ELSE WeightOf[items[k]])]
                /\ ev' = [ev EXCEPT !.pc = "inner", !.off = @ + 1, !.stat = Plus(@, one)]
                /\ gone' = IF items[k] = Nil THEN gone
                           ELSE Plus(gone, [items |-> 1, freed |-> WeightOf[items[k]]])
        /\ UNCHANGED <<memList, mapMem, entries, statCh, logged, clears, ctxDone>>
EvRemove ==
    LET s == ev.shard
        e == lru[s][ev.off + 1]
        k == keyOf[e]
        hit == IF items[k] = Nil THEN None ELSE [items |-> 1, freed |-> WeightOf[items[k]]]
    IN  /\ EvAt("remove")
        /\ IF ev.off >= Len(lru[s])
           THEN ev' = [ev EXCEPT !.pc = "outer"] /\ UNCHANGED <<lru, items, mem, gone>>
           ELSE /\ lru' = [lru EXCEPT ![s] = RemoveAt(@, ev.off + 1)]
                /\ items' = [items EXCEPT ![k] = Nil]
                /\ mem' = [mem EXCEPT ![s] = @ - hit.freed]
                /\ ev' = [ev EXCEPT !.pc = "inner", !.off = @ + 1, !.stat = Plus(@, hit)]
                /\ gone' = Plus(gone, hit)
        /\ UNCHANGED <<memList, mapMem, entries, statCh, logged, clears, ctxDone>>

\* The pass's figures go to the logger, or nowhere once the context is cancelled.
EvSend ==
    /\ EvAt("send") /\ Len(statCh) < StatCap
    /\ statCh' = Append(statCh, ev.stat)
    /\ ev' = Rest
    /\ Keep /\ UNCHANGED <<memList, mapMem, logged, gone>>

EvStop ==
    /\ ctxDone /\ ev.pc \in {"wait", "send"}
    /\ ev' = [Rest EXCEPT !.pc = "stopped"]
    /\ Keep /\ UNCHANGED <<memList, mapMem, statCh, logged, gone>>

\* The logger's loop (its reports and their reset are not told apart from its sums).
Log ==
    /\ statCh # <<>>
    /\ logged' = Plus(logged, Head(statCh)) /\ statCh' = Tail(statCh)
    /\ Keep /\ UNCHANGED <<memList, mapMem, ev, gone>>

\* The map's refresher publishes the sum.
MemTick ==
    /\ mapMem # RealMem
    /\ mapMem' = RealMem
    /\ Keep /\ UNCHANGED <<memList, ev, statCh, logged, gone>>

Cancel ==
    /\ ~ ctxDone
    /\ ctxDone' = TRUE
    /\ UNCHANGED <<items, mem, lru, memList, mapMem, entries, ev, statCh, logged, gone, clears>>

-------------------------------------------------------------------------------
EvPass == EvOuter \/ EvPick \/ EvInner \/ EvRemove
Next ==
    \/ \E k \in Key : Touch(k) \/ Insert(k)
    \/ Clear
    \/ EvTick \/ EvPass \/ EvSend \/ EvStop \/ Log \/ MemTick \/ Cancel

Spec == Init /\ [][Next]_vars

\* The evictor goes on, the ticker ticks, the logger reads until it is cancelled,
\* and a select that may stop again and again does in the end.
FairSpec ==
    /\ Spec
    /\ WF_vars(EvTick) /\ WF_vars(EvPass)
    /\ WF_vars(~ ctxDone /\ Log) /\ WF_vars(EvSend) /\ SF_vars(EvStop)

-------------------------------------------------------------------------------
(***************************************************************************)
(* Properties                                                              *)
(***************************************************************************)
\* The types.  A list holds entries that were made, and those have a key.
Figures == [items : Int, freed : Int]
TypeOK ==
    /\ made \in 0..MaxEntries
    /\ items \in [Key -> (1..made) \cup {Nil}]
    /\ mem \in [Shard -> Int] /\ lru \in [Shard -> Seq(1..made)]
    /\ memList \in Seq(Shard) /\ mapMem \in Int
    /\ keyOf \in [Entry -> Key \cup {Nil}] /\ \A e \in 1..made : keyOf[e] \in Key
    /\ ev \in [pc : {"wait", "outer", "pick", "inner", "remove", "send", "stopped"},
               so : Nat, shard : Shard \cup {Nil}, off : Nat, stat : Figures]
    /\ statCh \in Seq(Figures) /\ logged \in Figures /\ gone \in Figures
    /\ clears \in Nat /\ ctxDone \in BOOLEAN

\* Rebalance leaves the shards by weight, the heaviest first, and those of equal
\* weight in the order they were in: what the merge sort by relinking gives is
\* what a stable sort gives.
Before(l, a, b) == \E i, j \in DOMAIN l : i < j /\ l[i] = a /\ l[j] = b
RebalanceSorts ==
    [][EvPick /\ ev.so + 1 >= Fat => \A a, b \in Shard :
          Before(memList', a, b) <=>
             \/ mem[a] > mem[b]
             \/ mem[a] = mem[b] /\ Before(memList, a, b)]_vars

\* Every entry the evictor took out of the map, and its weight, is counted once: by
\* the logger, in the channel or in the pass under way - until a cancel drops it.
Total(q) == [items |-> SumFunction([i \in DOMAIN q |-> q[i].items]),
             freed |-> SumFunction([i \in DOMAIN q |-> q[i].freed])]
StatsHonest ==
    ev.pc # "stopped" =>
        Plus(Plus(logged, Total(statCh)), ev.stat) = gone

\* Every pass ends: whichever shards the order begins with, however many of them
\* are empty, the evictor gets to one it can take from until it is below the
\* threshold, and a cancelled context stops it.
PassEnds == /\ ev.pc \notin {"wait", "stopped"} ~> ev.pc \in {"wait", "stopped"}
            /\ ctxDone ~> ev.pc = "stopped"
===============================================================================
