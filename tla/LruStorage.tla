------------------------------ MODULE LruStorage ------------------------------
(***************************************************************************)
(* pkg/storage/lru over one shard: its items, its LRU list and its mem     *)
(* counter, shared by request handlers (Get, Set), the evictor, the        *)
(* refresher and Clear.  No lock spans two of these three: Set, Remove,    *)
(* touch and the evictor are sequences of steps, each atomic by itself     *)
(* (one critical section of the shard or of the list, or one atomic        *)
(* operation), and every other goroutine may run in between.               *)
(*                                                                         *)
(* An entry object, its LRU element and the element's value are one thing, *)
(* because an entry is pushed at most once: Entry is the ring's Elem.      *)
(* Payloads are abstract: whose they are and which version; WeightOf gives *)
(* the entry's weight and DigestOf what isPayloadsAreEquals compares.      *)
(* TinyLFU's verdict is either (module TinyLFU says which).                *)
(***************************************************************************)
EXTENDS Integers, FiniteSets, Sequences, Functions

CONSTANTS
    Resource,    \* what requests ask for; a fingerprint identifies one
    KeyOf,       \* resource -> its 64-bit key; equal for colliding resources
    Version,     \* versions of a payload the upstream may answer with
    WeightOf,    \* version -> weight of an entry that holds it
    DigestOf,    \* version -> what the comparison of payloads looks at
    Handler,     \* goroutines that call Get and Set
    MaxEntries,  \* bound: entries ever built
    MaxActive,   \* bound: operations under way at once (1: serial)
    MaxRefresh,  \* bound: refreshes
    MaxClears,   \* bound: calls of Clear
    Eviction,    \* cfg.Cache.Eviction.Enabled
    Threshold,   \* memoryThreshold
    BalancerMem, \* Balance.Mem(), which does not change once shards registered
    Nil

Root == 0
Evictor == "evictor"
Proc == Handler \cup {Evictor}
Entry == 1..MaxEntries
Key == {KeyOf[r] : r \in Resource}

ASSUME StorageAssumption ==
    /\ IsFiniteSet(Handler)
    /\ MaxEntries \in Nat /\ MaxActive \in Nat \ {0}
    /\ MaxRefresh \in Nat /\ MaxClears \in Nat
    /\ WeightOf \in [Version -> Nat \ {0}] /\ DOMAIN DigestOf = Version
    /\ Eviction \in BOOLEAN /\ Threshold \in Nat \ {0} /\ BalancerMem \in Nat
    /\ Evictor \notin Handler /\ Nil \notin Entry \cup {Root}

VARIABLES
    items,       \* key -> the entry stored, or Nil
    list,        \* the shard's LRU list
    elemSet,     \* entries whose lruListElem was stored
    made,        \* entries built so far: 1..made
    res,         \* entry -> its resource (key and fingerprint)
    pay,         \* entry -> its payload pointer: [res, ver]
    mem,         \* Shard.mem
    mapMem,      \* Map.mem, what Mem() returns
    proc,        \* handler or evictor -> [pc, new, old, off, delta]
    refreshing,  \* entry -> the resource a refresh is asking the upstream for, or Nil
    refreshes, clears,  \* spent of MaxRefresh, MaxClears
    panicked     \* a nil value was dereferenced: the process is gone

entries == <<made, res, pay, elemSet>>
budget  == <<refreshes, clears>>
vars == <<items, list, entries, mem, mapMem, proc, refreshing, budget, panicked>>

Ring == INSTANCE RingList WITH Elem <- Entry

Idle == [pc |-> "idle", new |-> Nil, old |-> Nil, off |-> 0, delta |-> 0]
Weight(e) == WeightOf[pay[e].ver]
Made == 1..made

Active == Cardinality({p \in Proc : proc[p].pc # "idle"})
            + Cardinality({e \in Entry : refreshing[e] # Nil})
MayStart == ~ panicked /\ Active < MaxActive

\* Process p stands at pc and may go on.
At(p, pc) == ~ panicked /\ proc[p].pc = pc
\* Process p goes on at pc with its other fields as they are, or is done.
Goto(p, pc) == proc' = [proc EXCEPT ![p].pc = pc]
Done(p) == proc' = [proc EXCEPT ![p] = Idle]

Init ==
    /\ items = [k \in Key |-> Nil]
    /\ list = Ring!NewList
    /\ elemSet = {} /\ made = 0
    /\ res = [e \in Entry |-> Nil] /\ pay = [e \in Entry |-> Nil]
    /\ mem = 0 /\ mapMem = 0
    /\ proc = [p \in Proc |-> Idle]
    /\ refreshing = [e \in Entry |-> Nil] /\ refreshes = 0 /\ clears = 0
    /\ panicked = FALSE

-------------------------------------------------------------------------------
(***************************************************************************)
(* Get and Set.  A Get that misses changes nothing and is left out: a      *)
(* handler that missed and fetched, or a loader, just calls Set.           *)
(***************************************************************************)
\* (A definition whose name ends in V is a slip a change to the code could make;
\* nothing uses it.)
SameFingerprintV(e, r) == res[e] # Nil                    \* never compared
SameFingerprint(e, r) == res[e] = r

\* Get finds the key with the right fingerprint, and touches the entry.
GetHit(h, r) ==
    LET e == items[KeyOf[r]]
    IN  /\ MayStart /\ At(h, "idle")
        /\ e # Nil /\ SameFingerprint(e, r)
        /\ proc' = [proc EXCEPT ![h] = [Idle EXCEPT !.pc = "touch", !.old = e]]
        /\ UNCHANGED <<items, list, entries, mem, mapMem, refreshing, budget, panicked>>

\* A Set starts with an entry just built from an answer of the upstream.
SetStart(h, r, v) ==
    LET e == made + 1
    IN  /\ MayStart /\ At(h, "idle") /\ made < MaxEntries
        /\ made' = e
        /\ res' = [res EXCEPT ![e] = r]
        /\ pay' = [pay EXCEPT ![e] = [res |-> r, ver |-> v]]
        /\ proc' = [proc EXCEPT ![h] = [Idle EXCEPT !.pc = "find", !.new = e]]
        /\ UNCHANGED <<items, list, elemSet, mem, mapMem, refreshing, budget, panicked>>

\* shardedMap.Get in Set: nothing there, the same resource, or a collision.
SetFind(h) ==
    LET new == proc[h].new
        e   == items[KeyOf[res[new]]]
    IN  /\ At(h, "find")
        /\ proc' = [proc EXCEPT ![h].old = e,
                                ![h].pc = IF e = Nil THEN "admit"
                                          ELSE IF SameFingerprint(e, res[new]) THEN "compare"
                                          ELSE "rmList"]
        /\ UNCHANGED <<items, list, entries, mem, mapMem, refreshing, budget, panicked>>

\* IsSamePayload
SetCompare(h) ==
    /\ At(h, "compare")
    /\ Goto(h, IF DigestOf[pay[proc[h].old].ver] = DigestOf[pay[proc[h].new].ver]
               THEN "touch" ELSE "swap")
    /\ UNCHANGED <<items, list, entries, mem, mapMem, refreshing, budget, panicked>>

\* SwapPayloads, in update; no counter is told of the new weight.
SetSwap(h) ==
    /\ At(h, "swap")
    /\ pay' = [pay EXCEPT ![proc[h].old] = pay[proc[h].new], ![proc[h].new] = pay[proc[h].old]]
    /\ Goto(h, "touch")
    /\ UNCHANGED <<items, list, made, res, elemSet, mem, mapMem, refreshing, budget, panicked>>

\* balancer.Update: MoveToFront gives up, before it locks the list, on a nil
\* element and on a list shorter than two.
TouchV(h) ==                                      \* a list of two is not reordered
    /\ At(h, "touch")
    /\ IF proc[h].old \in elemSet /\ list.len > 2 THEN Goto(h, "move") ELSE Done(h)
    /\ UNCHANGED <<items, list, entries, mem, mapMem, refreshing, budget, panicked>>
Touch(h) ==
    /\ At(h, "touch")
    /\ IF proc[h].old \in elemSet /\ list.len >= 2 THEN Goto(h, "move") ELSE Done(h)
    /\ UNCHANGED <<items, list, entries, mem, mapMem, refreshing, budget, panicked>>

Move(h) ==
    /\ At(h, "move")
    /\ list' = Ring!MoveToFront(list, proc[h].old)
    /\ Done(h)
    /\ UNCHANGED <<items, entries, mem, mapMem, refreshing, budget, panicked>>

\* ShouldEvict: the published sum decides whether admission is asked for.
SetAdmit(h) ==
    /\ At(h, "admit")
    /\ Goto(h, IF mapMem + BalancerMem >= Threshold THEN "victim" ELSE "insert")
    /\ UNCHANGED <<items, list, entries, mem, mapMem, refreshing, budget, panicked>>

\* FindVictim and Admit.  The verdict, and with an empty list what the
\* neighbouring shards hold, are open; a sentinel taken for an element has a nil
\* value, which Admit dereferences.
SetVictim(h) ==
    /\ At(h, "victim")
    /\ IF Ring!Back(list) = Root
       THEN panicked' = TRUE /\ UNCHANGED proc
       ELSE panicked' = panicked /\ (Goto(h, "insert") \/ Done(h))
    /\ UNCHANGED <<items, list, entries, mem, mapMem, refreshing, budget>>

\* Shard.Set under the lock ..
SetInsert(h) ==
    LET new == proc[h].new
        k   == KeyOf[res[new]]
    IN  /\ At(h, "insert")
        /\ items' = [items EXCEPT ![k] = new]
        /\ proc' = [proc EXCEPT ![h].pc = "insMem", ![h].old = items[k]]
        /\ UNCHANGED <<list, entries, mem, mapMem, refreshing, budget, panicked>>

\* .. and its counter, with the weights as they are by then.
SetCount(h) ==
    LET p == proc[h]
    IN  /\ At(h, "insMem")
        /\ mem' = mem + Weight(p.new) - (IF p.old = Nil THEN 0 ELSE Weight(p.old))
        /\ Goto(h, "push")
        /\ UNCHANGED <<items, list, entries, mapMem, refreshing, budget, panicked>>

SetPush(h) ==
    /\ At(h, "push")
    /\ list' = Ring!PushFront(list, proc[h].new)
    /\ Goto(h, "setElem")
    /\ UNCHANGED <<items, entries, mem, mapMem, refreshing, budget, panicked>>

\* SetLruListElement: until here the entry is in the list but does not know it.
SetElem(h) ==
    /\ At(h, "setElem")
    /\ elemSet' = elemSet \cup {proc[h].new}
    /\ Done(h)
    /\ UNCHANGED <<items, list, made, res, pay, mem, mapMem, refreshing, budget, panicked>>

-------------------------------------------------------------------------------
(***************************************************************************)
(* InMemoryStorage.Remove(old), by a Set that met a collision and by the   *)
(* evictor: first the list, then the map by KEY, then the counter.         *)
(***************************************************************************)
\* After a removal a Set goes on to admission and the evictor to its next offset.
AfterRemove(p) ==
    IF p = Evictor
    THEN proc' = [proc EXCEPT ![p].pc = "inner", ![p].old = Nil, ![p].delta = 0,
                              ![p].off = @ + 1]
    ELSE proc' = [proc EXCEPT ![p].pc = "admit", ![p].old = Nil, ![p].delta = 0]

RemoveListV(p) ==                                 \* balancer.Remove left out
    /\ At(p, "rmList")
    /\ Goto(p, "rmMap")
    /\ UNCHANGED <<items, list, entries, mem, mapMem, refreshing, budget, panicked>>
RemoveList(p) ==
    LET e == proc[p].old
    IN  /\ At(p, "rmList")
        /\ list' = IF e \in elemSet THEN Ring!Remove(list, e) ELSE list
        /\ Goto(p, "rmMap")
        /\ UNCHANGED <<items, entries, mem, mapMem, refreshing, budget, panicked>>

RemoveMapV(p) ==                                \* frees the weight of the argument
    LET k == KeyOf[res[proc[p].old]]
    IN  /\ At(p, "rmMap")
        /\ IF items[k] = Nil
           THEN AfterRemove(p) /\ UNCHANGED items
           ELSE /\ items' = [items EXCEPT ![k] = Nil]
                /\ proc' = [proc EXCEPT ![p].pc = "rmMem", ![p].delta = 0]
        /\ UNCHANGED <<list, entries, mem, mapMem, refreshing, budget, panicked>>
RemoveMap(p) ==
    LET k == KeyOf[res[proc[p].old]]
    IN  /\ At(p, "rmMap")
        /\ IF items[k] = Nil
           THEN AfterRemove(p) /\ UNCHANGED items
           ELSE /\ items' = [items EXCEPT ![k] = Nil]
                /\ proc' = [proc EXCEPT ![p].pc = "rmMem", ![p].delta = -Weight(items[k])]
        /\ UNCHANGED <<list, entries, mem, mapMem, refreshing, budget, panicked>>

RemoveCountV(p) ==                                \* the weight is not given back
    /\ At(p, "rmMem")
    /\ AfterRemove(p)
    /\ UNCHANGED <<items, list, entries, mem, mapMem, refreshing, budget, panicked>>
RemoveCount(p) ==
    /\ At(p, "rmMem")
    /\ mem' = mem + proc[p].delta
    /\ AfterRemove(p)
    /\ UNCHANGED <<items, list, entries, mapMem, refreshing, budget, panicked>>

-------------------------------------------------------------------------------
(***************************************************************************)
(* The evictor: evictUntilWithinLimit at each tick.  The other shards its  *)
(* outer loop also visits are not here.                                    *)
(***************************************************************************)
EvictTick ==
    /\ Eviction /\ MayStart /\ At(Evictor, "idle")
    /\ Goto(Evictor, "outer")
    /\ UNCHANGED <<items, list, entries, mem, mapMem, refreshing, budget, panicked>>

\* for e.shouldEvictRightNow(): RealMem sums the shards up and publishes the sum.
EvictOuter ==
    /\ At(Evictor, "outer")
    /\ mapMem' = mem
    /\ IF mem >= Threshold THEN Goto(Evictor, "len") ELSE Done(Evictor)
    /\ UNCHANGED <<items, list, entries, mem, refreshing, budget, panicked>>

\* An empty list is passed over ("continue").
EvictLen ==
    /\ At(Evictor, "len")
    /\ proc' = [proc EXCEPT ![Evictor].pc = IF list.len = 0 THEN "outer" ELSE "inner",
                            ![Evictor].off = 0]
    /\ UNCHANGED <<items, list, entries, mem, mapMem, refreshing, budget, panicked>>

EvictInner ==
    /\ At(Evictor, "inner")
    /\ mapMem' = mem
    /\ Goto(Evictor, IF mem >= Threshold THEN "next" ELSE "outer")
    /\ UNCHANGED <<items, list, entries, mem, refreshing, budget, panicked>>

\* Next(offset) from the front of the list; the end of the list ends the loop.
EvictNext ==
    LET e == Ring!NextAt(list, proc[Evictor].off)
    IN  /\ At(Evictor, "next")
        /\ IF e = Root
           THEN panicked' = TRUE /\ UNCHANGED proc
           ELSE /\ panicked' = panicked
                /\ IF e = Nil THEN Goto(Evictor, "outer")
                   ELSE proc' = [proc EXCEPT ![Evictor].pc = "rmList", ![Evictor].old = e]
        /\ UNCHANGED <<items, list, entries, mem, mapMem, refreshing, budget>>

-------------------------------------------------------------------------------
\* A refresh worker samples a stored entry and takes the request from its payload
\* (an entry is refreshed once at a time) ..
RefreshStart(e) ==
    /\ MayStart /\ refreshes < MaxRefresh
    /\ e \in Made /\ refreshing[e] = Nil /\ \E k \in Key : items[k] = e
    /\ refreshing' = [refreshing EXCEPT ![e] = pay[e].res]
    /\ refreshes' = refreshes + 1
    /\ UNCHANGED <<items, list, entries, mem, mapMem, proc, clears, panicked>>

\* .. and stores that request with what the upstream answers as its new payload.
RefreshStore(e, v) ==
    /\ ~ panicked /\ refreshing[e] # Nil
    /\ pay' = [pay EXCEPT ![e] = [res |-> refreshing[e], ver |-> v]]
    /\ refreshing' = [refreshing EXCEPT ![e] = Nil]
    /\ UNCHANGED <<items, list, made, res, elemSet, mem, mapMem, proc, budget, panicked>>

\* The refresh fails: the entry stays as it is.
RefreshFail(e) ==
    /\ ~ panicked /\ refreshing[e] # Nil
    /\ refreshing' = [refreshing EXCEPT ![e] = Nil]
    /\ UNCHANGED <<items, list, entries, mem, mapMem, proc, budget, panicked>>

\* The memory refresher's tick publishes the sum.
MemTick ==
    /\ ~ panicked /\ mapMem # mem
    /\ mapMem' = mem
    /\ UNCHANGED <<items, list, entries, mem, proc, refreshing, budget, panicked>>

ClearV ==                                         \* mem is not zeroed
    /\ MayStart /\ clears < MaxClears
    /\ items' = [k \in Key |-> Nil]
    /\ clears' = clears + 1
    /\ UNCHANGED <<list, entries, mem, mapMem, proc, refreshing, refreshes, panicked>>
\* Shard.Clear; the LRU list is not told.  (Its stores may also meet adds of Sets
\* and Removes already past the lock: that is ShardedMap's.)
Clear ==
    /\ MayStart /\ clears < MaxClears
    /\ items' = [k \in Key |-> Nil]
    /\ mem' = 0
    /\ clears' = clears + 1
    /\ UNCHANGED <<list, entries, mapMem, proc, refreshing, refreshes, panicked>>
-------------------------------------------------------------------------------
RemoveStep(p) == RemoveList(p) \/ RemoveMap(p) \/ RemoveCount(p)
HandlerStep(h) ==
    \/ SetFind(h) \/ SetCompare(h) \/ SetSwap(h) \/ Touch(h) \/ Move(h)
    \/ SetAdmit(h) \/ SetVictim(h) \/ SetInsert(h) \/ SetCount(h) \/ SetPush(h) \/ SetElem(h)
    \/ RemoveStep(h)
Request(h) == \E r \in Resource : GetHit(h, r) \/ \E v \in Version : SetStart(h, r, v)
EvictStep == EvictOuter \/ EvictLen \/ EvictInner \/ EvictNext \/ RemoveStep(Evictor)
RefreshEnd(e) == RefreshFail(e) \/ \E v \in Version : RefreshStore(e, v)

Next ==
    \/ \E h \in Handler : Request(h) \/ HandlerStep(h)
    \/ EvictTick \/ EvictStep
    \/ \E e \in Entry : RefreshStart(e) \/ RefreshEnd(e)
    \/ MemTick \/ Clear

Spec == Init /\ [][Next]_vars

\* A goroutine that can go on does, and the tickers tick.
Fairness ==
    /\ \A h \in Handler : WF_vars(HandlerStep(h))
    /\ WF_vars(EvictStep) /\ WF_vars(EvictTick)
    /\ \A e \in Entry : WF_vars(RefreshEnd(e))
    /\ WF_vars(MemTick)
FairSpec == Spec /\ Fairness

-------------------------------------------------------------------------------
(***************************************************************************)
(* Properties                                                              *)
(***************************************************************************)
Quiet  == \A p \in Proc : proc[p].pc = "idle"
Cached == {items[k] : k \in Key} \ {Nil}
Linked == {Ring!Walk(list)[i] : i \in DOMAIN Ring!Walk(list)}

\* No entry ever holds another resource's payload, although colliding resources
\* share a key, payloads change hands between entries and refreshes store late.
OwnPayload == \A e \in Made : pay[e].res = res[e]

\* What p has yet to add to mem: a Set past its insertion, a Remove past its deletion.
Owed(p) ==
    IF proc[p].pc # "insMem" THEN proc[p].delta
    ELSE IF proc[p].old = Nil THEN Weight(proc[p].new)
    ELSE Weight(proc[p].new) - Weight(proc[p].old)

\* The weight a shard's counter stands for is that of the entries stored, up to
\* the adds still owed by Sets past their insertion and Removes past their
\* deletion.  (For payloads of one weight, and no Clear.)
MemExact ==
    mem + SumFunctionOnSet([p \in Proc |-> Owed(p)], Proc)
        = SumFunctionOnSet([e \in Made |-> Weight(e)], Cached)

\* The list is a ring of Len() elements in both directions.
RingSound ==
    LET s == Ring!Walk(list) IN Len(s) = list.len /\ Ring!RingOf(list, s)

\* Between operations every stored entry is in the list, and nothing else is until
\* a Clear empties the map alone.
MapListAgree == Quiet => Cached \subseteq Linked /\ (clears = 0 => Linked \subseteq Cached)

\* A Get that hits and a Set leave their entry at the front of the list, where
\* the code keeps the most recently used.
UsedIsFront ==
    [][\A h \in Handler :
         /\ proc[h].pc \in {"touch", "move"} /\ proc'[h].pc = "idle"
               => list'.next[Root] = proc[h].old
         /\ proc[h].pc = "setElem" /\ proc'[h].pc = "idle"
               => list'.next[Root] = proc[h].new]_vars

\* The evictor comes back from every tick: it brings the shard below the
\* threshold, or there is nothing left to evict.
EvictorReturns == proc[Evictor].pc # "idle" ~> proc[Evictor].pc = "idle"

===============================================================================
